---------------------------- MODULE Spec2Model ----------------------------
(***************************************************************************)
(* A model of the 1C -> PostgreSQL synchronisation script sync_1c_full.py: *)
(*   - Sync1C.get_all_documents, the paginator with its recursive search   *)
(*     for problem documents (find_problem_doc);                           *)
(*   - Sync1C.get_catalog and the two paging loops of Sync1C.sync_sales;   *)
(*   - the flattening of documents into rows;                              *)
(*   - main and the five stages with their store transactions.             *)
(* A remote record is identified by its offset in its remote collection.   *)
(* Quantities and amounts are integers, in thousandths.                    *)
(***************************************************************************)
EXTENDS Integers, Sequences, FiniteSets, Bags, TLC

(***************************************************************************)
(* Bounds of the model.                                                    *)
(***************************************************************************)
\* largest remote collection given to get_all_documents on its own
MaxN == 12
\* batch sizes 1..MaxSmallBatch are tried besides the two that bisect
MaxSmallBatch == 3
\* largest number of permanently failing offsets
MaxFaults == 2
\* largest number of transient request failures in a bounded run
MaxTransient == 3
\* largest remote document collection of a stage
MaxDocs == 2
\* largest remote catalog of a stage
MaxItems == 2

\* the entries of a long remote catalog beyond its first page
MaxTail == 1
\* the day of the run
Today == 1000

(***************************************************************************)
(* Program constants.                                                      *)
(***************************************************************************)
\* find_problem_doc probes offsets one by one when batch <= 10
SplitAt == 10
\* batch_size of get_all_documents, of get_catalog and of sync_sales
DocBatch == 500
CatalogBatch == 1000
SalesBatch == 100
\* execute_values sends the rows in statements of page_size rows each
PageSize == 100
\* max_consecutive_errors of sync_sales
MaxConsecutiveErrors == 10
\* the window is the last 365 days
WindowDays == 365

EMPTY_UUID == "00000000-0000-0000-0000-000000000000"

\* marks a remote that fails every request
Unlimited == -1

VARIABLES
    \* ---- the remote source ----
    remote,         \* the remote collections of the stages
    transient,      \* transient failures the remote may still produce
    \* ---- get_all_documents ----
    N,              \* number of records of the remote collection
    batch_size,     \* the batch_size argument
    faults,         \* offsets of the collection that fail permanently
    unprintable,    \* offsets of the records whose Date or Number is null
    ppc,            \* "idle", "main", "find", "done", "raised"
    skip,           \* the offset of the running paging loop
    all_docs,       \* the result list (offsets of the records)
    problem_docs,   \* the recorded problem documents
    skip_positions, \* the positions to be skipped
    stack,          \* the active calls of find_problem_doc, innermost first
    requests,       \* the requests issued so far (not read by any guard)
    \* ---- the stages ----
    mpc,            \* where main is
    todo,           \* the stages still to be called, the running one first
    step,           \* where the running stage is
    all_items,      \* get_catalog's result list
    consecutive_errors,
    sales_docs,     \* offsets of the sales documents kept
    corrections,    \* offsets of the correction documents kept
    records,        \* the rows the stage computed
    db,             \* the durable contents of the store's tables
    work,           \* the tables as the connection sees them
    hist,           \* what happened (not read by any action's guard)
    \* ---- flattening on its own ----
    flat,
    \* ---- the reference resolver ----
    caches,         \* contractors_cache, nomenclature_cache, consignees_cache
    rpc,            \* which part of the run uses the caches
    call            \* the last use of a cache (not read by any guard)

remoteVars == <<remote, transient>>

pageVars == <<N, batch_size, faults, unprintable, ppc, all_docs,
              problem_docs, skip_positions, stack, requests>>

loopVars == <<all_items, consecutive_errors, sales_docs, corrections>>

storeVars == <<records, db, work>>

mainVars == <<mpc, todo, step>>

resolveVars == <<caches, rpc, call>>

vars == <<remoteVars, pageVars, skip, loopVars, storeVars, mainVars, hist,
          flat, resolveVars>>

(***************************************************************************)
(* The remote collection: a request ($skip = s, $top = t) answers the      *)
(* records at the offsets s .. s+t-1 that exist, or fails.                 *)
(***************************************************************************)
Min(a, b) == IF a < b THEN a ELSE b

Max(a, b) == IF a > b THEN a ELSE b

Range(s) == {s[k] : k \in DOMAIN s}

\* the offsets a successful request (s, t) answers, of a collection of n
PageOf(n, s, t) ==
    [k \in 1 .. Max(0, Min(s + t, n) - s) |-> s + k - 1]

Page(s, t) == PageOf(N, s, t)

\* a request fails for certain when it covers a permanently failing offset
\* (or asks for a negative offset)
Covers(F, s, t) ==
    s < 0 \/ \E f \in F : s <= f /\ f < s + t

MustFail(s, t) == transient = Unlimited \/ Covers(faults, s, t)

\* whether the request (s, t) may fail when b transient failures are left
FailChoices(b, s, t) ==
    IF MustFail(s, t) THEN {TRUE}
    ELSE IF b # 0 THEN {TRUE, FALSE}
    ELSE {FALSE}

\* the transient failures left after the request (s, t) failed or not
Spend(b, s, t, fail) ==
    IF fail /\ ~MustFail(s, t) /\ b > 0 THEN b - 1 ELSE b

(***************************************************************************)
(* get_all_documents. find_problem_doc: one frame per active call.         *)
(***************************************************************************)
NewFrame(s, b) ==
    [start |-> s, batch |-> b,
     pc |-> IF b <= SplitAt THEN "probe" ELSE "first", i |-> 0]

RECURSIVE Unwind(_)
\* the calls that have returned are dropped
Unwind(stk) ==
    IF stk # <<>> /\ Head(stk).pc = "ret" THEN Unwind(Tail(stk)) ELSE stk

\* the two halves of a range: mid = batch // 2 and batch - mid
Mid(batch) == batch \div 2

RestMutant(batch) == batch \div 2

Rest(batch) == batch - Mid(batch)

\* the requests of a call of get_all_documents: the offsets of the requests
\* of a full batch in the order issued, and the requests (skip, top) that
\* failed
NoRequests == [batches |-> <<>>, failed |-> {}]

\* try_load(s, t) was called and failed or not
Requested(log, s, t, fail) ==
    IF fail THEN [log EXCEPT !.failed = @ \cup {<<s, t>>}] ELSE log

\* what get_all_documents leaves alone
PageFrame ==
    UNCHANGED <<remote, N, batch_size, faults, unprintable, loopVars,
                storeVars, mainVars, hist, flat, resolveVars>>

\* the main loop, were it to stop at a full page as well
LastPageMutant(docs, b) == Len(docs) <= b

\* "if not docs: break" and "if len(docs) < batch_size: break"
LastPage(docs, b) == docs = <<>> \/ Len(docs) < b

\* the main loop: one request of a full batch and what follows it
MainRequest ==
    /\ ppc = "main"
    /\ \E fail \in FailChoices(transient, skip, batch_size) :
        /\ transient' = Spend(transient, skip, batch_size, fail)
        /\ requests' = Requested([requests EXCEPT
                                     !.batches = Append(@, skip)],
                                 skip, batch_size, fail)
        /\ IF fail
           THEN /\ stack' = <<NewFrame(skip, batch_size)>>
                /\ ppc' = "find"
                /\ UNCHANGED <<skip, all_docs>>
           ELSE LET docs == Page(skip, batch_size) IN
                /\ all_docs' = all_docs \o docs
                /\ IF LastPage(docs, batch_size)
                   THEN ppc' = "done" /\ skip' = skip
                   ELSE ppc' = "main" /\ skip' = skip + batch_size
                /\ stack' = stack
    /\ UNCHANGED <<problem_docs, skip_positions>>
    /\ PageFrame

\* the main loop, were it to ask for the failed batch again
ResumeMutant(s, b) == s

\* skip += batch_size after find_problem_doc
Resume(s, b) == s + b

\* the main loop after find_problem_doc returned
MainResume ==
    /\ ppc = "find"
    /\ stack = <<>>
    /\ skip' = Resume(skip, batch_size)
    /\ ppc' = "main"
    /\ UNCHANGED <<transient, all_docs, problem_docs, skip_positions, stack,
                   requests>>
    /\ PageFrame

\* the text about the neighbours of a problem document: .get('Number',
\* '?').strip() and .get('Date', '?')[:10] of the record that the request
\* before, or after, the position answered. A null Number raises
\* AttributeError, a null Date TypeError
InfoRaises(pos, before, after) ==
    \/ before /\ pos - 1 \in unprintable
    \/ after /\ pos + 1 \in unprintable

\* one iteration of the loop that probes the offsets of a small range
ProbeOffset ==
    /\ ppc = "find"
    /\ stack # <<>>
    /\ Head(stack).pc = "probe"
    /\ LET fr == Head(stack)
           pos == fr.start + fr.i
           next == IF fr.i + 1 < fr.batch
                   THEN <<[fr EXCEPT !.i = fr.i + 1]>> \o Tail(stack)
                   ELSE Unwind(Tail(stack))
       IN
       IF pos \in skip_positions
       THEN /\ stack' = next
            /\ UNCHANGED <<ppc, transient, all_docs, problem_docs,
                           skip_positions, requests>>
       ELSE \E fail \in FailChoices(transient, pos, 1) :
            LET b1 == Spend(transient, pos, 1, fail) IN
            IF fail
            THEN \E fb \in FailChoices(b1, pos - 1, 1) :
                 LET b2 == Spend(b1, pos - 1, 1, fb) IN
                 \E fa \in FailChoices(b2, pos + 1, 1) :
                 LET b3 == Spend(b2, pos + 1, 1, fa)
                     before == ~fb /\ Page(pos - 1, 1) # <<>>
                     after == ~fa /\ Page(pos + 1, 1) # <<>>
                 IN
                 /\ transient' = b3
                 /\ all_docs' = all_docs
                 /\ requests' =
                       Requested(Requested(Requested(requests,
                           pos, 1, TRUE), pos - 1, 1, fb), pos + 1, 1, fa)
                 /\ IF InfoRaises(pos, before, after)
                    THEN /\ ppc' = "raised"
                         /\ UNCHANGED <<stack, problem_docs, skip_positions>>
                    ELSE /\ problem_docs' = Append(problem_docs,
                               [pos |-> pos, before |-> before,
                                after |-> after])
                         /\ skip_positions' = skip_positions \cup {pos}
                         /\ stack' = next
                         /\ ppc' = ppc
            ELSE /\ all_docs' = all_docs \o Page(pos, 1)
                 /\ transient' = b1
                 /\ stack' = next
                 /\ UNCHANGED <<ppc, problem_docs, skip_positions, requests>>
    /\ skip' = skip
    /\ PageFrame

\* the request of the first half of a range
BisectFirst ==
    /\ ppc = "find"
    /\ stack # <<>>
    /\ Head(stack).pc = "first"
    /\ LET fr == Head(stack)
           mid == Mid(fr.batch)
           here == [fr EXCEPT !.pc = "second"]
       IN
       \E fail \in FailChoices(transient, fr.start, mid) :
        /\ transient' = Spend(transient, fr.start, mid, fail)
        /\ requests' = Requested(requests, fr.start, mid, fail)
        /\ IF fail
           THEN /\ stack' = <<NewFrame(fr.start, mid), here>> \o Tail(stack)
                /\ all_docs' = all_docs
           ELSE /\ stack' = <<here>> \o Tail(stack)
                /\ all_docs' = all_docs \o Page(fr.start, mid)
    /\ UNCHANGED <<ppc, skip, problem_docs, skip_positions>>
    /\ PageFrame

\* the request of the second half of a range
BisectSecond ==
    /\ ppc = "find"
    /\ stack # <<>>
    /\ Head(stack).pc = "second"
    /\ LET fr == Head(stack)
           mid == Mid(fr.batch)
           rest == Rest(fr.batch)
           here == [fr EXCEPT !.pc = "ret"]
       IN
       \E fail \in FailChoices(transient, fr.start + mid, rest) :
        /\ transient' = Spend(transient, fr.start + mid, rest, fail)
        /\ requests' = Requested(requests, fr.start + mid, rest, fail)
        /\ IF fail
           THEN /\ stack' = <<NewFrame(fr.start + mid, rest), here>>
                             \o Tail(stack)
                /\ all_docs' = all_docs
           ELSE /\ stack' = Unwind(Tail(stack))
                /\ all_docs' = all_docs \o Page(fr.start + mid, rest)
    /\ UNCHANGED <<ppc, skip, problem_docs, skip_positions>>
    /\ PageFrame

get_all_documents ==
    \/ MainRequest
    \/ MainResume
    \/ ProbeOffset
    \/ BisectFirst
    \/ BisectSecond

(***************************************************************************)
(* The fields of a remote record. A numeric field is absent, null, a       *)
(* number (in thousandths) or a text that is no number; a key is absent,   *)
(* null, the empty string, the sentinel or a real key.                     *)
(***************************************************************************)
Num(v) == [k |-> "num", v |-> v]

Absent == [k |-> "absent", v |-> 0]

Null == [k |-> "null", v |-> 0]

Text == [k |-> "text", v |-> 0]

KeyAbsent == "<absent>"

\* Python's None
PyNone == "<None>"

\* a Date that is absent, empty or no date, and a Date that is null
BadDate == -1
NullDate == -2

\* x.get(name): an absent key reads as None
Get(key) == IF key = KeyAbsent THEN PyNone ELSE key

\* x.get(name, ''): an absent key reads as the empty string
GetOrEmpty(key) == IF key = KeyAbsent THEN "" ELSE key

\* "not key"
Falsy(key) == key = "" \/ key = PyNone

\* the truth value of a numeric field's value
Truthy(f) == (f.k = "num" /\ f.v # 0) \/ f.k = "text"

\* item.get(name, 0) or 0
OrZero(f) == IF Truthy(f) THEN f ELSE Num(0)

\* float(x) raises ValueError on a text that is no number
FloatRaises(f) == f.k = "text"

\* numbers above 2^31, as floats hold them: <<high, low>> stands for
\* high * 2^26 + low
Limb == 2^26

Wide(i) == <<i \div Limb, i % Limb>>

\* 2 * p, p + bit and p - q, and whether p >= q
Dbl(p) == <<2 * p[1] + (2 * p[2]) \div Limb, (2 * p[2]) % Limb>>

Inc(p, bit) == <<p[1] + (p[2] + bit) \div Limb, (p[2] + bit) % Limb>>

Sub(p, q) ==
    IF p[2] >= q[2] THEN <<p[1] - q[1], p[2] - q[2]>>
    ELSE <<p[1] - q[1] - 1, p[2] + Limb - q[2]>>

Geq(p, q) == p[1] > q[1] \/ (p[1] = q[1] /\ p[2] >= q[2])

RECURSIVE Digits(_, _, _)
\* k more binary digits of the fraction x.r / d, x.r < d, appended to x.m:
\* the number and what is left of the fraction
Digits(x, d, k) ==
    IF k = 0 THEN x
    ELSE IF Geq(Dbl(x.r), d)
         THEN Digits([m |-> Inc(Dbl(x.m), 1), r |-> Sub(Dbl(x.r), d)], d, k - 1)
         ELSE Digits([m |-> Dbl(x.m), r |-> Dbl(x.r)], d, k - 1)

\* x.m rounded by what is left of the fraction: up above a half, to the
\* even number at a half
Nearest(x, d) ==
    IF Dbl(x.r) = d THEN Inc(x.m, x.m[2] % 2)
    ELSE IF Geq(Dbl(x.r), d) THEN Inc(x.m, 1)
    ELSE x.m

RECURSIVE BitLen(_)
\* the number of binary digits of i > 0
BitLen(i) == IF i = 0 THEN 0 ELSE 1 + BitLen(i \div 2)

RECURSIVE LeadingZeros(_)
\* the zero binary digits that the fraction r / 1000, 0 < r < 1000, starts
\* with
LeadingZeros(r) == IF 2 * r >= 1000 THEN 0 ELSE 1 + LeadingZeros(2 * r)

RECURSIVE Remainder(_, _)
\* what is left of the fraction r / 1000 after n binary digits
Remainder(r, n) == IF n = 0 THEN r ELSE Remainder((2 * r) % 1000, n - 1)

\* a value of x thousandths, x >= 0, is held as the float (53 significant
\* binary digits) nearest to it: whether the float is above (1), below (-1)
\* or exactly (0) the value
FloatError(x) ==
    LET r0 == x % 1000
        digits == IF x >= 1000 THEN 53 - BitLen(x \div 1000)
                  ELSE 53 + LeadingZeros(r0)
        r == Remainder(r0, digits)
    IN  IF r0 = 0 \/ r = 0 THEN 0
        ELSE IF 2 * r > 1000 THEN 1 ELSE 0 - 1

RECURSIVE Round2(_)
\* round(x, 2) of the float of x thousandths: to the nearest hundredth; a
\* tie goes where the float lies, and to the even hundredth when the float
\* holds the tie exactly
Round2(x) ==
    IF x < 0 THEN 0 - Round2(0 - x)
    ELSE LET r == x % 10
             base == x - r
         IN  IF r < 5 THEN base
             ELSE IF r > 5 THEN base + 10
             ELSE IF FloatError(x) > 0 THEN base + 10
             ELSE IF FloatError(x) < 0 THEN base
             ELSE IF (base \div 10) % 2 = 0 THEN base ELSE base + 10

\* round(x, 3): thousandths are the unit of the model
Round3(x) == x

\* the exponent of the float of n thousandths, n > 0
Exponent(n) ==
    IF n >= 1000 THEN BitLen(n \div 1000) - 1
    ELSE 0 - (LeadingZeros(n) + 1)

\* the 53 binary digits of the float of n thousandths, whose exponent is e:
\* those of n / (1000 * 2^e), to the nearest
Mantissa(num, den) ==
    Nearest(Digits([m |-> <<0, 1>>, r |-> Wide(num - den)], Wide(den), 52),
            Wide(den))

\* the float of n thousandths, n > 0, with the exponent e: [m, e] stands
\* for m * 2^(e - 52), m a number of 53 binary digits
FloatAt(n, e) ==
    [m |-> IF e >= 0 THEN Mantissa(n, 1000 * 2^e)
           ELSE Mantissa(n * 2^(0 - e), 1000),
     e |-> e]

Float(n) == FloatAt(n, Exponent(n))

\* the 53 binary digits of the quotient of the floats a and b, to the
\* nearest: those of a.m / b.m, or of 2 * a.m / b.m when a.m < b.m
DivideFrom(r, d) == Nearest(Digits([m |-> <<0, 1>>, r |-> r], d, 52), d)

\* a / b of two floats, as the division of floats gives it: the nearest
\* float
Divide(a, b) ==
    IF Geq(a.m, b.m)
    THEN [m |-> DivideFrom(Sub(a.m, b.m), b.m), e |-> a.e - b.e]
    ELSE [m |-> DivideFrom(Sub(Dbl(a.m), b.m), b.m), e |-> a.e - b.e - 1]

\* float(n) / float(d) of n and d thousandths, n > 0 and d > 0
FloatDiv(n, d) == Divide(Float(n), Float(d))

\* whether the number of 53 binary digits m is above (1), below (-1) or
\* exactly (0) the number whose first 53 binary digits are t.m and whose
\* further digits are those of the fraction left t.r
Order(m, t) ==
    IF m = t.m THEN (IF t.r = <<0, 0>> THEN 0 ELSE 0 - 1)
    ELSE IF Geq(m, t.m) THEN 1 ELSE 0 - 1

\* the binary digits of num / den, 1 <= num / den < 4: 53 of them when it
\* is below 2
DigitsOf(num, den) ==
    Digits([m |-> Wide(num \div den), r |-> Wide(num % den)], Wide(den), 52)

\* whether the float x is above (1), below (-1) or exactly (0) the
\* quotient n / d
ErrorOf(x, n, d) ==
    IF x.e >= 0 THEN Order(x.m, DigitsOf(n, d * 2^x.e))
    ELSE Order(x.m, DigitsOf(n * 2^(0 - x.e), d))

\* whether the float quotient of n and d thousandths is above, below or
\* exactly the quotient n / d
QuotientError(n, d) == ErrorOf(FloatDiv(n, d), n, d)

\* a quotient that is a tie between the hundredths q and q + 1 goes where
\* its float lies, and to the even hundredth when the float is the tie
Tie(q, e) ==
    IF e > 0 THEN q + 1
    ELSE IF e < 0 THEN q
    ELSE IF q % 2 = 0 THEN q ELSE q + 1

\* the nearest hundredth of n / d, n >= 0 and d > 0, as round(x, 2) of the
\* float quotient gives it: q hundredths and r / d of one more
Hundredths(n, d, q, r) ==
    IF 2 * r < d THEN q
    ELSE IF 2 * r > d THEN q + 1
    ELSE Tie(q, QuotientError(n, d))

\* the absolute value
Abs(a) == IF a < 0 THEN 0 - a ELSE a

\* round(float(a) / float(b), 2) in thousandths, for b # 0
RoundDiv2(a, b) ==
    (IF (a < 0) = (b < 0) THEN 10 ELSE 0 - 10)
        * Hundredths(Abs(a), Abs(b), (100 * Abs(a)) \div Abs(b),
                     (100 * Abs(a)) % Abs(b))

\* the window of main: the last WindowDays days
date_to == Today

date_from == date_to - WindowDays

\* a filter that lets the days next to the window through
InWindowWide(d) == date_from - 1 <= d /\ d <= date_to + 1

\* date_from <= doc_date <= date_to
InWindow(d) == date_from <= d /\ d <= date_to

\* key if key != EMPTY_UUID else None
NoSentinelMutant(key) == key

NoSentinel(key) == IF key = EMPTY_UUID THEN PyNone ELSE key

(***************************************************************************)
(* A remote document collection is [n, shape, faults]: n documents, the    *)
(* document at offset i being shape[i mod Len(shape)] with number i, and   *)
(* the offsets that fail permanently.                                      *)
(***************************************************************************)
DocAt(c, off) == c.shape[(off % Len(c.shape)) + 1]

\* the loop "for doc in docs" that keeps the documents of the window:
\* a null Date raises TypeError and ends the loop with the documents kept
\* so far, a Date that does not parse is skipped
FilterDocs(c, offs, kept) ==
    LET nulls == {k \in DOMAIN offs : DocAt(c, offs[k]).Date = NullDate}
        stop == IF nulls = {} THEN Len(offs) + 1
                ELSE CHOOSE k \in nulls : \A j \in nulls : k <= j
        InDates(off) == LET d == DocAt(c, off).Date
                        IN  d # BadDate /\ InWindow(d)
    IN  [raised |-> nulls # {},
         kept |-> kept \o SelectSeq(SubSeq(offs, 1, stop - 1), InDates)]

(***************************************************************************)
(* Flattening. A result is [raised, rows]: whether an exception left the   *)
(* stage, and the rows appended to records.                                *)
(***************************************************************************)
NoRows == [raised |-> FALSE, rows |-> <<>>]

Raised == [raised |-> TRUE, rows |-> <<>>]

\* the price of a purchase row
PurchasePrice(quantity, price, summa) == Round2(price)

\* sync_purchases, one line item
PurchaseItem(doc_date, doc_number, contractor_key, item) ==
    LET nom_key == GetOrEmpty(item.nom)
        quantity == OrZero(item.qty)
        price == OrZero(item.price)
        summa == IF Truthy(item.sum_vat) THEN item.sum_vat
                 ELSE IF Truthy(item.sum) THEN item.sum
                 ELSE Num(0)
    IN  IF FloatRaises(quantity) \/ FloatRaises(price) \/ FloatRaises(summa)
        THEN Raised
        ELSE IF quantity.v > 0
        THEN [raised |-> FALSE,
              rows |-> << [doc_date |-> doc_date,
                           doc_number |-> doc_number,
                           contractor_id |-> NoSentinel(contractor_key),
                           nomenclature_id |-> NoSentinel(nom_key),
                           quantity |-> Round3(quantity.v),
                           price |-> PurchasePrice(quantity.v, price.v,
                                                   summa.v),
                           sum_total |-> Round2(summa.v)] >>]
        ELSE NoRows

\* pallets: float(pallets) if pallets else 0, and 0 when float raises
Pallets(f) ==
    IF f.k = "num" THEN f.v ELSE 0

\* doc.get(name, 0) or 0, of a field that holds no text
Logistics(f) == IF Truthy(f) THEN f.v ELSE 0

\* doc.get('Партнер_Key') or doc.get('Контрагент_Key')
ClientKey(doc) ==
    IF Falsy(Get(doc.partner)) THEN Get(doc.contractor) ELSE Get(doc.partner)

\* consignee_key if consignee_key and consignee_key != EMPTY_UUID else None
ConsigneeId(doc) ==
    IF Falsy(Get(doc.consignee)) THEN PyNone
    ELSE NoSentinel(Get(doc.consignee))

\* sync_sales, one line item of a sales document
SalesItem(doc, doc_number, item) ==
    LET nom_key == Get(item.nom)
        client_key == ClientKey(doc)
        quantity == OrZero(item.qty)
        price == OrZero(item.price)
        sum_without_vat == OrZero(item.sum)
        sum_with_vat == OrZero(item.sum_vat)
    IN  IF Falsy(nom_key) \/ nom_key = EMPTY_UUID THEN NoRows
        ELSE IF \/ FloatRaises(quantity) \/ FloatRaises(price)
                \/ FloatRaises(sum_without_vat) \/ FloatRaises(sum_with_vat)
        THEN Raised
        ELSE IF quantity.v = 0 THEN NoRows
        ELSE [raised |-> FALSE,
              rows |-> << [doc_type |-> "sale",
                           doc_date |-> doc.Date,
                           doc_number |-> doc_number,
                           client_id |-> NoSentinel(client_key),
                           consignee_id |-> ConsigneeId(doc),
                           nomenclature_id |-> nom_key,
                           quantity |-> quantity.v,
                           price |-> price.v,
                           sum_without_vat |-> sum_without_vat.v,
                           sum_with_vat |-> sum_with_vat.v,
                           pallets_count |-> Pallets(doc.pallets),
                           logistics_cost_fact |->
                               Logistics(doc.logistics_fact),
                           logistics_cost_plan |->
                               Logistics(doc.logistics_plan)] >>]

\* sync_sales, one line item of a correction document
CorrectionItem(doc, doc_number, item) ==
    LET nom_key == Get(item.nom)
        client_key == ClientKey(doc)
        quantity == OrZero(item.qty)
        sum_without_vat == OrZero(item.sum)
        sum_with_vat == OrZero(item.sum_vat)
    IN  IF Falsy(nom_key) \/ nom_key = EMPTY_UUID THEN NoRows
        ELSE IF \/ FloatRaises(quantity)
                \/ FloatRaises(sum_without_vat) \/ FloatRaises(sum_with_vat)
        THEN Raised
        ELSE [raised |-> FALSE,
              rows |-> << [doc_type |-> "correction",
                           doc_date |-> doc.Date,
                           doc_number |-> doc_number,
                           client_id |-> NoSentinel(client_key),
                           consignee_id |-> ConsigneeId(doc),
                           nomenclature_id |-> nom_key,
                           quantity |-> quantity.v,
                           price |-> IF quantity.v # 0
                                     THEN RoundDiv2(sum_without_vat.v,
                                                    quantity.v)
                                     ELSE 0,
                           sum_without_vat |-> sum_without_vat.v,
                           sum_with_vat |-> sum_with_vat.v,
                           pallets_count |-> 0,
                           logistics_cost_fact |-> 0,
                           logistics_cost_plan |-> 0] >>]

\* one line item, by the kind of its document
FlattenItem(kind, doc, doc_number, item) ==
    IF kind = "purchase"
    THEN PurchaseItem(doc.Date, doc_number, GetOrEmpty(doc.contractor),
                      item)
    ELSE IF kind = "sale" THEN SalesItem(doc, doc_number, item)
    ELSE CorrectionItem(doc, doc_number, item)
(***************************************************************************)
(* The store. A table is a bag of rows; db holds what is durable, work     *)
(* what the connection sees inside its transaction.                        *)
(***************************************************************************)
Catalogs == {"types", "nomenclature", "clients"}

DocStages == {"purchases", "sales"}

\* the calls of main, in their order
MainPlan == <<"types", "nomenclature", "clients", "purchases", "sales">>

Table(stage) ==
    CASE stage = "types" -> "nomenclature_types"
      [] stage = "nomenclature" -> "nomenclature"
      [] stage = "clients" -> "clients"
      [] stage = "purchases" -> "purchase_prices"
      [] stage = "sales" -> "sales"

Tables == {Table(s) : s \in Catalogs \cup DocStages}

NoRowsBag == [r \in {} |-> 0]

BagOfSeq(s) == [r \in Range(s) |-> Cardinality({k \in DOMAIN s : s[k] = r})]

\* doc_date BETWEEN date_from AND date_to
SqlBetweenMutant(d) == date_from < d /\ d < date_to

SqlBetweenWide(d) == date_from - 1 <= d /\ d <= date_to + 1

SqlBetween(d) == date_from <= d /\ d <= date_to

\* the rows of a table whose date lies in the window
WindowRows(b) == [r \in {x \in DOMAIN b : InWindow(x.doc_date)} |-> b[r]]

DeleteWindowMutant(b) == b

\* DELETE FROM t WHERE doc_date BETWEEN date_from AND date_to
DeleteWindow(b) ==
    [r \in {x \in DOMAIN b : ~SqlBetween(x.doc_date)} |-> b[r]]

\* DELETE FROM t
DeleteAllMutant(b) == b

DeleteAll(b) == NoRowsBag

\* the store after a commit that is acknowledged and changes nothing
CommittedMutant(d, w) == d

\* conn.commit(): the store after the commit of the connection's changes
Committed(d, w) == w

\* what is durable once the connection is lost inside a transaction: the
\* connection does not commit by itself
DurableMutant(d, w) == w

Durable(d, w) == d

(***************************************************************************)
(* The catalogs. A remote catalog is the sequence of its items.            *)
(***************************************************************************)
\* item.get('Description', '') or item.get('НаименованиеПолное', '')
ClientName(item) ==
    IF Falsy(GetOrEmpty(item.name)) THEN GetOrEmpty(item.full)
    ELSE item.name

\* the row of an item, per catalog. The columns code, article, inn and
\* weight, which no stage reads again, and the constant columns are not
\* modelled
CatalogRow(stage, item) ==
    CASE stage = "types" ->
            [id |-> Get(item.key), parent_id |-> NoSentinel(Get(item.parent)),
             name |-> GetOrEmpty(item.name), is_folder |-> item.folder]
      [] stage = "nomenclature" ->
            [id |-> Get(item.key), parent_id |-> NoSentinel(Get(item.parent)),
             is_folder |-> item.folder, name |-> GetOrEmpty(item.name),
             full_name |-> GetOrEmpty(item.full),
             type_id |-> NoSentinel(Get(item.type)),
             unit_id |-> NoSentinel(Get(item.unit))]
      [] stage = "clients" ->
            [id |-> Get(item.key), name |-> ClientName(item)]

\* whether the loop over the items skips the item
SkippedItem(stage, item) ==
    \/ Falsy(Get(item.key))
    \/ Get(item.key) = EMPTY_UUID
    \/ stage = "clients" /\ item.folder

\* the list "values" of a catalog stage: the rows of the items that the
\* loop does not skip, in the order of the items
CatalogValues(stage, items) ==
    LET kept == SelectSeq(items, LAMBDA item : ~SkippedItem(stage, item))
    IN  [k \in DOMAIN kept |-> CatalogRow(stage, kept[k])]

\* the first and the last row of the statement that holds row i
PageFirst(i) == ((i - 1) \div PageSize) * PageSize + 1

PageLast(values, i) == Min(Len(values), PageFirst(i) + PageSize - 1)

\* an INSERT .. ON CONFLICT (id) DO UPDATE fails on two rows of one id in
\* one statement
TwiceSameId(values) ==
    /\ Cardinality({values[k].id : k \in DOMAIN values}) < Len(values)
    /\ \E i \in DOMAIN values : \E j \in i + 1 .. PageLast(values, i) :
            values[i].id = values[j].id

\* the ids of the rows of a table
StoredIds(table) == {r.id : r \in BagToSet(table)}

\* ON CONFLICT (id) DO UPDATE SET ..: the row of an id that is stored, or
\* was inserted by an earlier statement, keeps the columns that SET does
\* not name (is_folder and unit_id of nomenclature)
Updated(stage, old, new) ==
    IF stage = "nomenclature"
    THEN [new EXCEPT !.is_folder = old.is_folder, !.unit_id = old.unit_id]
    ELSE new

\* the table after execute_values(cur, "INSERT .. ON CONFLICT (id) DO
\* UPDATE ..", values) when no statement fails
InsertValues(stage, table, values) ==
    LET ids == {values[k].id : k \in DOMAIN values}
        at(id) == {k \in DOMAIN values : values[k].id = id}
        first(id) == CHOOSE k \in at(id) : \A j \in at(id) : k <= j
        last(id) == CHOOSE k \in at(id) : \A j \in at(id) : j <= k
        stored(id) == {r \in BagToSet(table) : r.id = id}
        row(id) ==
            IF stored(id) # {}
            THEN Updated(stage, CHOOSE r \in stored(id) : TRUE,
                         values[last(id)])
            ELSE IF first(id) = last(id) THEN values[first(id)]
            ELSE Updated(stage, values[first(id)], values[last(id)])
        others == {r \in BagToSet(table) : r.id \notin ids}
    IN  IF table = NoRowsBag /\ Cardinality(ids) = Len(values)
        THEN SetToBag(Range(values))
        ELSE [r \in others |-> table[r]] (+) SetToBag({row(id) : id \in ids})


(***************************************************************************)
(* The reference resolver. A cache is a dictionary: a function from the    *)
(* keys it holds to their names. The three remote catalogs that names are  *)
(* looked up in are written "Catalog_Partners", "Catalog_Contractors" and  *)
(* "Catalog_Nomenclature".                                                 *)
(***************************************************************************)
NoCache == [k \in {} |-> ""]

NoCaches ==
    [contractors_cache |-> NoCache, nomenclature_cache |-> NoCache,
     consignees_cache |-> NoCache]

\* no name of any cache was obtained yet
NoOrigins == NoCaches

\* cache[key] = name
Put(cache, key, name) == (key :> name) @@ cache

\* the remote's answer to a single-entity lookup: status 200 with a body
\* whose Description is a name, null or missing; a status other than 200; a
\* request that raises (timeout); a body that is no JSON. FullName stands
\* for the other name fields of a body
Found(name) ==
    [kind |-> "200", Description |-> name, FullName |-> KeyAbsent]

\* status 200 with a body that has no Description but another name field
FoundByOtherField(name) ==
    [kind |-> "200", Description |-> KeyAbsent, FullName |-> name]

NotFound ==
    [kind |-> "status", Description |-> KeyAbsent, FullName |-> KeyAbsent]

TimedOut ==
    [kind |-> "timeout", Description |-> KeyAbsent, FullName |-> KeyAbsent]

Malformed ==
    [kind |-> "malformed", Description |-> KeyAbsent, FullName |-> KeyAbsent]

\* no request was issued
NoAnswer ==
    [kind |-> "none", Description |-> KeyAbsent, FullName |-> KeyAbsent]

\* the catalog that each name of a cache was obtained from, after a step
\* that took the cache from before to after with names of catalog
Origins(origin, before, after, catalog) ==
    [k \in DOMAIN after |->
        IF k \in DOMAIN before /\ k \in DOMAIN origin
              /\ after[k] = before[k]
        THEN origin[k] ELSE catalog]

\* the request of get_name_by_key, were a failure cached as well
LookupMutant(cache, key, answer) ==
    LET name == IF answer.kind = "200" THEN GetOrEmpty(answer.Description)
                ELSE PyNone
    IN  [cache |-> Put(cache, key, name), name |-> name, requested |-> TRUE]

\* the request of get_name_by_key: r.json().get(name_field, '') of a status
\* 200 is cached and returned; whatever else happens gives None
Lookup(cache, key, answer) ==
    IF answer.kind = "200"
    THEN LET name == GetOrEmpty(answer.Description)
         IN  [cache |-> Put(cache, key, name), name |-> name,
              requested |-> TRUE]
    ELSE [cache |-> cache, name |-> PyNone, requested |-> TRUE]

\* get_name_by_key, were a cached key looked up again
GetNameUncached(cache, key, answer) == Lookup(cache, key, answer)

\* get_name_by_key of a key that is neither empty nor the sentinel
GetNameCached(cache, key, answer) ==
    IF key \in DOMAIN cache
    THEN [cache |-> cache, name |-> cache[key], requested |-> FALSE]
    ELSE Lookup(cache, key, answer)

\* get_name_by_key without the guard on the key
GetNameUnguarded(cache, key, answer) == GetNameCached(cache, key, answer)

\* get_name_by_key(cache, catalog_name, key) when the remote would give
\* answer: the cache afterwards, the value returned and whether a request
\* was issued
get_name_by_key(cache, key, answer) ==
    IF Falsy(key) \/ key = EMPTY_UUID
    THEN [cache |-> cache, name |-> PyNone, requested |-> FALSE]
    ELSE GetNameCached(cache, key, answer)

\* the calls of get_name_by_key in the document stages: the cache and the
\* catalog each passes
CallSites ==
    {<<"contractors_cache", "Catalog_Partners">>,
     <<"contractors_cache", "Catalog_Contractors">>,
     <<"consignees_cache", "Catalog_Partners">>,
     <<"nomenclature_cache", "Catalog_Nomenclature">>}

\* the cache that a catalog stage fills
CacheOf(stage) ==
    IF stage = "nomenclature" THEN "nomenclature_cache"
    ELSE "contractors_cache"

\* the loop of sync_nomenclature or sync_clients over the items: the cache
\* afterwards. Every item that the loop does not skip sets cache[key] =
\* name, so a key ends with the name of the last of its items
CacheItems(stage, cache, items) ==
    LET kept == SelectSeq(items, LAMBDA item : ~SkippedItem(stage, item))
        at(key) == {k \in DOMAIN kept : Get(kept[k].key) = key}
        last(key) == CHOOSE k \in at(key) : \A j \in at(key) : j <= k
    IN  [key \in {Get(kept[k].key) : k \in DOMAIN kept} |->
            GetOrEmpty(kept[last(key)].name)] @@ cache

\* the caches after the loop of a catalog stage over the items: the loop of
\* sync_nomenclature_types fills none
FillCaches(stage, items) ==
    IF stage = "types" THEN caches
    ELSE [caches EXCEPT
            ![CacheOf(stage)] = CacheItems(stage, caches[CacheOf(stage)],
                                           items)]

(***************************************************************************)
(* The loops of the document stages over the documents and their line      *)
(* items. A result is [raised, rows, caches]: the rows appended to         *)
(* records and the caches after the lookups of the names. named is the set *)
(* of the remote catalogs whose entities are there to be looked up.        *)
(***************************************************************************)
LookupCatalogs ==
    {"Catalog_Partners", "Catalog_Contractors", "Catalog_Nomenclature"}

\* the remote's answer to the lookup of an entity of a catalog: a
\* Description, or a status other than 200 when the catalog has no such
\* entity
Entity(named, catalog) ==
    IF catalog \notin named THEN NotFound
    ELSE IF catalog = "Catalog_Partners" THEN Found("A")
    ELSE Found("B")

\* self.get_name_by_key(self.<cache>, catalog, key): the caches afterwards
\* and the name returned
NameByKey(named, cs, cache, catalog, key) ==
    LET r == get_name_by_key(cs[cache], key, Entity(named, catalog))
    IN  [caches |-> [cs EXCEPT ![cache] = r.cache], name |-> r.name]

\* consignee_name, looked up if consignee_key and consignee_key != EMPTY_UUID
ConsigneeLookup(named, cs, doc) ==
    IF Falsy(Get(doc.consignee)) \/ Get(doc.consignee) = EMPTY_UUID THEN cs
    ELSE NameByKey(named, cs, "consignees_cache", "Catalog_Partners",
                   Get(doc.consignee)).caches

\* client_name of a sale: partner, the result of the lookup among the
\* partners, or else the lookup among the contractors
ClientLookup(kind, named, partner, doc) ==
    IF kind = "sale" /\ Falsy(partner.name)
    THEN NameByKey(named, partner.caches, "contractors_cache",
                   "Catalog_Contractors", ClientKey(doc)).caches
    ELSE partner.caches

\* the caches after the lookups of a document: the contractor of a
\* purchase; the client of a sale among the partners or else among the
\* contractors; the client of a correction among the partners; the
\* consignee of a sale or a correction
DocLookups(kind, named, cs, doc) ==
    IF kind = "purchase"
    THEN NameByKey(named, cs, "contractors_cache", "Catalog_Contractors",
                   GetOrEmpty(doc.contractor)).caches
    ELSE ConsigneeLookup(named,
             ClientLookup(kind, named,
                 NameByKey(named, cs, "contractors_cache",
                           "Catalog_Partners", ClientKey(doc)),
                 doc),
             doc)

\* the caches after the lookup of the nomenclature of a line item, which
\* comes before the numbers of the item are read
ItemLookup(kind, named, cs, item) ==
    NameByKey(named, cs, "nomenclature_cache", "Catalog_Nomenclature",
              IF kind = "purchase" THEN GetOrEmpty(item.nom)
              ELSE Get(item.nom)).caches

\* no document flattened yet
NoneFlattened(cs) == [raised |-> FALSE, rows |-> <<>>, caches |-> cs]

\* the result acc with one more line item: looked are the caches after the
\* lookup of its nomenclature, r its rows, or that it raised
AddItem(acc, looked, r) ==
    [raised |-> r.raised, rows |-> acc.rows \o r.rows, caches |-> looked]

RECURSIVE FlattenItems(_, _, _, _, _, _)
\* the loop over the line items of a document, from the result acc on
FlattenItems(kind, doc, doc_number, named, items, acc) ==
    IF acc.raised \/ items = <<>> THEN acc
    ELSE FlattenItems(kind, doc, doc_number, named, Tail(items),
             AddItem(acc, ItemLookup(kind, named, acc.caches, Head(items)),
                     FlattenItem(kind, doc, doc_number, Head(items))))

\* one document: the lookups of its names, then its line items
FlattenDoc(kind, doc, doc_number, named, acc) ==
    FlattenItems(kind, doc, doc_number, named, doc.items,
                 [acc EXCEPT !.caches = DocLookups(kind, named, @, doc)])

RECURSIVE FlattenDocs(_, _, _, _, _)
\* the loop over the documents kept, from the result acc on
FlattenDocs(kind, c, named, offs, acc) ==
    IF acc.raised \/ offs = <<>> THEN acc
    ELSE FlattenDocs(kind, c, named, Tail(offs),
             FlattenDoc(kind, DocAt(c, Head(offs)), Head(offs), named, acc))
(***************************************************************************)
(* main and the stages.                                                    *)
(***************************************************************************)
Stage == Head(todo)

\* main, were it to go on after a failed connection
RunningMutant(s) == todo # <<>> /\ s

Running(s) == mpc = "stage" /\ todo # <<>> /\ s

\* whether a request that no permanent fault decides may fail
MayFail == IF transient # 0 THEN {TRUE, FALSE} ELSE {FALSE}

Spent(fail) == IF fail /\ transient > 0 THEN transient - 1 ELSE transient

\* the locals of a stage before it runs and after it returned
NoLocals ==
    /\ N' = 0
    /\ batch_size' = DocBatch
    /\ faults' = {}
    /\ unprintable' = {}
    /\ ppc' = "idle"
    /\ skip' = 0
    /\ all_docs' = <<>>
    /\ problem_docs' = <<>>
    /\ skip_positions' = {}
    /\ stack' = <<>>
    /\ requests' = NoRequests
    /\ all_items' = <<>>
    /\ consecutive_errors' = 0
    /\ sales_docs' = <<>>
    /\ corrections' = <<>>
    /\ records' = <<>>

\* an exception leaves the stage and main: the process ends, the connection
\* is lost with its transaction
Crash(at) ==
    /\ mpc' = "crashed"
    /\ db' = Durable(db, work)
    /\ work' = Durable(db, work)
    /\ hist' = [hist EXCEPT !.crash = at]

\* sync.test_connection() and what main does with its result
TestConnection ==
    /\ mpc = "test_connection"
    /\ \E fail \in MayFail :
        /\ transient' = Spent(fail)
        /\ mpc' = IF fail THEN "no_1c" ELSE "pg_connect"
    /\ UNCHANGED <<remote, pageVars, skip, loopVars, storeVars, todo, step,
                   hist, flat, resolveVars>>

\* psycopg2.connect and what main does when it raises
PgConnect ==
    /\ mpc = "pg_connect"
    /\ \E ok \in BOOLEAN :
        mpc' = IF ok THEN "stage" ELSE "no_pg"
    /\ UNCHANGED <<remoteVars, pageVars, skip, loopVars, storeVars, todo,
                   step, hist, flat, resolveVars>>

\* the call of a catalog stage, up to its first request
CatalogBegin ==
    /\ Running(step = "begin" /\ Stage \in Catalogs)
    /\ skip' = 0
    /\ all_items' = <<>>
    /\ step' = "catalog_loop"
    /\ hist' = [hist EXCEPT !.before = db, !.started = Append(@, Stage)]
    /\ UNCHANGED <<remoteVars, pageVars, consecutive_errors, sales_docs,
                   corrections, storeVars, mpc, todo, flat, resolveVars>>

\* get_catalog: one request and what follows it
CatalogRequest ==
    /\ Running(step = "catalog_loop")
    /\ \E fail \in MayFail :
        /\ transient' = Spent(fail)
        /\ IF fail
           THEN /\ step' = "fetched"
                /\ hist' = [hist EXCEPT !.failed = @ \cup {Stage}]
                /\ UNCHANGED <<skip, all_items>>
           ELSE LET offs == PageOf(Len(remote[Stage]), skip, CatalogBatch)
                    items == [k \in DOMAIN offs |-> remote[Stage][offs[k] + 1]]
                IN  /\ all_items' = all_items \o items
                    /\ IF items = <<>> \/ Len(items) < CatalogBatch
                       THEN step' = "fetched" /\ skip' = skip
                       ELSE step' = step /\ skip' = skip + CatalogBatch
                    /\ hist' = hist
    /\ UNCHANGED <<remote, pageVars, consecutive_errors, sales_docs,
                   corrections, storeVars, mpc, todo, flat, resolveVars>>

\* a catalog stage, were it to go on with no item
NothingFetchedMutant(items) == FALSE

\* if not items: return
NothingFetched(items) == items = <<>>

\* a catalog stage after get_catalog: nothing fetched, nothing done;
\* otherwise the DELETE of the whole table
CatalogDelete ==
    /\ Running(step = "fetched")
    /\ IF NothingFetched(all_items)
       THEN /\ step' = "return"
            /\ UNCHANGED <<mpc, db, work, hist>>
       ELSE \E ok \in BOOLEAN :
            IF ok
            THEN /\ work' = [work EXCEPT ![Table(Stage)] = DeleteAll(@)]
                 /\ step' = "insert"
                 /\ UNCHANGED <<mpc, db, hist>>
            ELSE Crash("delete") /\ step' = step
    /\ UNCHANGED <<remoteVars, pageVars, skip, loopVars, records, todo, flat, resolveVars>>

\* a catalog stage: the rows of the items and their INSERT
CatalogInsert ==
    /\ Running(step = "insert" /\ Stage \in Catalogs)
    /\ LET values == CatalogValues(Stage, all_items) IN
       /\ records' = values
       /\ IF values = <<>>
          THEN /\ step' = "commit"
               /\ UNCHANGED <<mpc, db, work, hist>>
          ELSE \E ok \in IF TwiceSameId(values) THEN {FALSE} ELSE BOOLEAN :
               IF ok
               THEN /\ work' = [work EXCEPT
                                  ![Table(Stage)] =
                                      InsertValues(Stage, @, values)]
                    /\ step' = "commit"
                    /\ UNCHANGED <<mpc, db, hist>>
               ELSE Crash("insert") /\ step' = step
    /\ caches' = FillCaches(Stage, all_items)
    /\ UNCHANGED <<remoteVars, pageVars, skip, loopVars, todo, flat, rpc,
                   call>>

\* conn.commit()
Commit ==
    /\ Running(step = "commit")
    /\ \E ok \in BOOLEAN :
       IF ok
       THEN /\ db' = Committed(db, work)
            /\ step' = "return"
            /\ hist' = [hist EXCEPT !.committed = @ \cup {Stage}]
            /\ UNCHANGED <<mpc, work>>
       ELSE Crash("commit") /\ step' = step
    /\ UNCHANGED <<remoteVars, pageVars, skip, loopVars, records, todo, flat, resolveVars>>

\* the stage returns: main calls the next one, or closes the connection
EndStage ==
    /\ Running(step = "return")
    /\ todo' = Tail(todo)
    /\ step' = "begin"
    /\ mpc' = IF Tail(todo) = <<>> THEN "done" ELSE "stage"
    /\ hist' = [hist EXCEPT !.ends = Append(@,
                   [stage |-> Stage, table |-> db[Table(Stage)]])]
    /\ NoLocals
    /\ UNCHANGED <<remoteVars, db, work, flat, resolveVars>>

(***************************************************************************)
(* sync_purchases.                                                         *)
(***************************************************************************)
\* the offsets of the documents of a collection whose Date is null
NullDates(c) == {o \in 0 .. c.n - 1 : DocAt(c, o).Date = NullDate}

\* the call of sync_purchases up to the first request of get_all_documents
PurchasesBegin ==
    /\ Running(step = "begin" /\ Stage = "purchases")
    /\ N' = remote.purchases.n
    /\ batch_size' = DocBatch
    /\ faults' = remote.purchases.faults
    /\ unprintable' = NullDates(remote.purchases)
    /\ ppc' = "main"
    /\ skip' = 0
    /\ all_docs' = <<>>
    /\ problem_docs' = <<>>
    /\ skip_positions' = {}
    /\ stack' = <<>>
    /\ requests' = NoRequests
    /\ step' = "paging"
    /\ hist' = [hist EXCEPT !.before = db, !.started = Append(@, Stage)]
    /\ UNCHANGED <<remoteVars, loopVars, storeVars, mpc, todo, flat, resolveVars>>

\* what a stage does with the result r of its flattening: an exception
\* leaves the stage; otherwise the records are saved if there are any
Flattened(r) ==
    /\ caches' = r.caches
    /\ IF r.raised
       THEN /\ Crash("flatten")
            /\ UNCHANGED <<records, step>>
       ELSE /\ records' = r.rows
            /\ step' = IF r.rows = <<>> THEN "return" ELSE "delete"
            /\ UNCHANGED <<mpc, db, work, hist>>

\* the flattening of the documents that the filter f kept, unless the
\* filter raised
FlattenKept(f) ==
    IF f.raised THEN [raised |-> TRUE, rows |-> <<>>, caches |-> caches]
    ELSE FlattenDocs("purchase", remote.purchases, remote.named, f.kept,
                     NoneFlattened(caches))

\* sync_purchases after get_all_documents returned or raised: the filter by
\* date and the flattening, or the exception leaves the stage
PurchasesFlatten ==
    /\ Running(step = "paging" /\ ppc \in {"done", "raised"})
    /\ IF ppc = "raised"
       THEN /\ Crash("fetch")
            /\ UNCHANGED <<records, step, caches>>
       ELSE Flattened(FlattenKept(FilterDocs(remote.purchases, all_docs,
                                             <<>>)))
    /\ UNCHANGED <<remoteVars, pageVars, skip, loopVars, todo, flat, rpc,
                   call>>

\* _save_purchases and _save_sales: the DELETE of the window
DocDelete ==
    /\ Running(step = "delete")
    /\ \E ok \in BOOLEAN :
       IF ok
       THEN /\ work' = [work EXCEPT ![Table(Stage)] = DeleteWindow(@)]
            /\ step' = "insert"
            /\ UNCHANGED <<mpc, db, hist>>
       ELSE Crash("delete") /\ step' = step
    /\ UNCHANGED <<remoteVars, pageVars, skip, loopVars, records, todo, flat, resolveVars>>

\* _save_purchases and _save_sales: the INSERT of the records
DocInsert ==
    /\ Running(step = "insert" /\ Stage \in DocStages)
    /\ \E ok \in BOOLEAN :
       IF ok
       THEN /\ work' = [work EXCEPT ![Table(Stage)] = @ (+) BagOfSeq(records)]
            /\ step' = "commit"
            /\ UNCHANGED <<mpc, db, hist>>
       ELSE Crash("insert") /\ step' = step
    /\ UNCHANGED <<remoteVars, pageVars, skip, loopVars, records, todo, flat, resolveVars>>

(***************************************************************************)
(* sync_sales.                                                             *)
(***************************************************************************)
\* the answers to a request of a batch of collection c at the offset skip
Answers(c) ==
    IF Covers(c.faults, skip, SalesBatch) THEN {"500"}
    ELSE IF transient # 0 THEN {"ok", "500", "other", "raise"}
    ELSE {"ok"}

\* a paging loop of sync_sales, were it never to give up
GiveUpMutant(errors) == FALSE

\* while consecutive_errors < max_consecutive_errors, negated
GiveUp(errors) == errors >= MaxConsecutiveErrors

\* the transient failures left after a request of a batch of collection c
\* at the offset skip got answer: the 500 of a permanently failing offset is
\* none of them
SpentOn(c, answer) ==
    IF Covers(c.faults, skip, SalesBatch) THEN transient
    ELSE Spent(answer # "ok")

\* one iteration of a paging loop of sync_sales over collection c, whose
\* documents of the window are kept in the list kept; leave says whether
\* the loop has ended
SalesIteration(c, kept, answer) ==
    LET docs == PageOf(c.n, skip, SalesBatch)
        f == FilterDocs(c, docs, kept)
        skipped == [skip |-> skip + SalesBatch,
                    errors |-> consecutive_errors + 1,
                    kept |-> kept,
                    leave |-> GiveUp(consecutive_errors + 1)]
        break == [skip |-> skip, errors |-> consecutive_errors,
                  kept |-> kept, leave |-> TRUE]
    IN  CASE answer \in {"500", "raise"} -> skipped
          [] answer = "other" -> break
          [] answer = "ok" ->
               IF docs = <<>> THEN break
               ELSE IF f.raised THEN [skipped EXCEPT !.kept = f.kept]
               ELSE IF Len(docs) < SalesBatch
                    THEN [skip |-> skip, errors |-> 0, kept |-> f.kept,
                          leave |-> TRUE]
                    ELSE [skip |-> skip + SalesBatch, errors |-> 0,
                          kept |-> f.kept, leave |-> FALSE]

\* the call of sync_sales up to its first request
SalesBegin ==
    /\ Running(step = "begin" /\ Stage = "sales")
    /\ skip' = 0
    /\ consecutive_errors' = 0
    /\ sales_docs' = <<>>
    /\ step' = "sales_loop"
    /\ hist' = [hist EXCEPT !.before = db, !.started = Append(@, Stage)]
    /\ UNCHANGED <<remoteVars, pageVars, all_items, corrections, storeVars,
                   mpc, todo, flat, resolveVars>>

\* the paging loop over the sales documents; when it ends, the locals of
\* the loop over the corrections are set
SalesRequest ==
    /\ Running(step = "sales_loop")
    /\ \E answer \in Answers(remote.sales) :
       LET it == SalesIteration(remote.sales, sales_docs, answer) IN
        /\ transient' = SpentOn(remote.sales, answer)
        /\ sales_docs' = it.kept
        /\ hist' = IF answer # "ok"
                   THEN [hist EXCEPT !.failed = @ \cup {Stage},
                                     !.last = answer]
                   ELSE [hist EXCEPT !.last = answer]
        /\ IF it.leave
           THEN /\ step' = "corr_loop"
                /\ skip' = 0
                /\ consecutive_errors' = 0
           ELSE /\ step' = step
                /\ skip' = it.skip
                /\ consecutive_errors' = it.errors
    /\ corrections' = <<>>
    /\ UNCHANGED <<remote, pageVars, all_items, storeVars, mpc, todo, flat, resolveVars>>

\* the paging loop over the corrections
CorrRequest ==
    /\ Running(step = "corr_loop")
    /\ \E answer \in Answers(remote.corrections) :
       LET it == SalesIteration(remote.corrections, corrections, answer) IN
        /\ transient' = SpentOn(remote.corrections, answer)
        /\ corrections' = it.kept
        /\ hist' = IF answer # "ok"
                   THEN [hist EXCEPT !.failed = @ \cup {Stage},
                                     !.last = answer]
                   ELSE [hist EXCEPT !.last = answer]
        /\ skip' = it.skip
        /\ consecutive_errors' = it.errors
        /\ step' = IF it.leave THEN "flatten" ELSE step
    /\ UNCHANGED <<remote, pageVars, all_items, sales_docs, storeVars, mpc,
                   todo, flat, resolveVars>>

\* sync_sales after its two loops: the flattening of the sales documents
\* and of the corrections
SalesFlatten ==
    /\ Running(step = "flatten")
    /\ Flattened(FlattenDocs("correction", remote.corrections, remote.named,
                     corrections,
                     FlattenDocs("sale", remote.sales, remote.named,
                                 sales_docs, NoneFlattened(caches))))
    /\ UNCHANGED <<remoteVars, pageVars, skip, loopVars, todo, flat, rpc,
                   call>>

(***************************************************************************)
(* Flattening on its own: one line item of one document.                   *)
(***************************************************************************)
\* the flattening r leaves its rows, or that it raised, and the caches as
\* its lookups left them
Flat(r) ==
    /\ flat' = [flat EXCEPT
                  !.pc = "out",
                  !.out = [raised |-> r.raised, rows |-> r.rows]]
    /\ caches' = r.caches

\* a document with one line item: the lookups of its names, then the item
Flatten ==
    /\ flat.pc = "in"
    /\ flat.kind \notin Catalogs
    /\ Flat(FlattenDoc(flat.kind, [flat.doc EXCEPT !.items = <<flat.item>>],
                       0, remote.named, NoneFlattened(caches)))
    /\ UNCHANGED <<remoteVars, pageVars, skip, loopVars, storeVars, mainVars,
                   hist, rpc, call>>

\* the loop of a catalog stage: one item of the catalog, its row and its
\* name in the cache of the stage
FlattenCatalog ==
    /\ flat.pc = "in"
    /\ flat.kind \in Catalogs
    /\ flat' = [flat EXCEPT
                  !.pc = "out",
                  !.out = [raised |-> FALSE,
                           rows |-> CatalogValues(flat.kind, <<flat.entry>>)]]
    /\ caches' = FillCaches(flat.kind, <<flat.entry>>)
    /\ UNCHANGED <<remoteVars, pageVars, skip, loopVars, storeVars, mainVars,
                   hist, rpc, call>>
NoCall ==
    [op |-> "none", cache |-> "contractors_cache",
     catalog |-> "Catalog_Partners", key |-> PyNone, answer |-> NoAnswer,
     name |-> PyNone, requested |-> FALSE, before |-> NoCache,
     source |-> PyNone, origin |-> NoOrigins]

ResolveIdle ==
    /\ caches = NoCaches
    /\ rpc = "off"
    /\ call = NoCall

\* the keys, names and answers of the resolver's runs: "a" is a key of
\* every catalog, "b" one of the nomenclature only
ResolveKeys(catalog) ==
    {KeyAbsent, "", EMPTY_UUID, "a"}
        \cup IF catalog = "Catalog_Nomenclature" THEN {"b"} ELSE {}

Names == {"A", "B"}

Lookups ==
    {Found(n) : n \in Names \cup {KeyAbsent, PyNone}}
        \cup {FoundByOtherField("A"), NotFound, TimedOut, Malformed}

\* the catalog that a catalog stage fetches
CatalogName(stage) ==
    IF stage = "nomenclature" THEN "Catalog_Nomenclature"
    ELSE "Catalog_Partners"

LoadItems(stage) ==
    [key : ResolveKeys(CatalogName(stage)), parent : {EMPTY_UUID},
     folder : IF stage = "clients" THEN BOOLEAN ELSE {FALSE},
     name : {"A", KeyAbsent, PyNone},
     full : {KeyAbsent}, type : {EMPTY_UUID}, unit : {EMPTY_UUID}]

\* sync_nomenclature and sync_clients after get_catalog: with no item the
\* stage returns; otherwise the DELETE of the whole table, which may raise
BeginLoad ==
    /\ rpc \in {"nomenclature", "clients"}
    /\ mpc = "off"
    /\ step = "begin"
    /\ \E items \in {"none", "some"} :
        IF items = "none"
        THEN /\ step' = "return"
             /\ UNCHANGED <<mpc, db, work, hist>>
        ELSE \E ok \in BOOLEAN :
             IF ok
             THEN /\ work' = [work EXCEPT ![Table(rpc)] = DeleteAll(@)]
                  /\ step' = "insert"
                  /\ UNCHANGED <<mpc, db, hist>>
             ELSE Crash("delete") /\ step' = step
    /\ UNCHANGED <<remoteVars, pageVars, skip, loopVars, records, todo, flat,
                   resolveVars>>

\* sync_nomenclature and sync_clients: one iteration of the loop over the
\* items fetched, which appends the row of an item that it keeps to the
\* list "values" and puts its name in the cache
Load ==
    /\ rpc \in {"nomenclature", "clients"}
    /\ mpc = "off"
    /\ step = "insert"
    /\ \E item \in LoadItems(rpc) :
        LET cache == CacheOf(rpc)
        IN  /\ SkippedItem(rpc, item) \/ Len(records) < MaxItems
            /\ records' = records \o CatalogValues(rpc, <<item>>)
            /\ caches' = FillCaches(rpc, <<item>>)
            /\ call' = [op |-> "load", cache |-> cache,
                        catalog |-> CatalogName(rpc),
                        key |-> Get(item.key), answer |-> NoAnswer,
                        name |-> GetOrEmpty(item.name),
                        requested |-> FALSE, before |-> caches[cache],
                        source |-> PyNone,
                        origin |-> [call.origin EXCEPT ![cache] =
                                      Origins(@, caches[cache],
                                              caches'[cache],
                                              CatalogName(rpc))]]
    /\ UNCHANGED <<remoteVars, pageVars, skip, loopVars, db, work, mainVars,
                   hist, flat, rpc>>

\* what the end of a catalog stage may do: "insert" and "commit" are the
\* statements that raise; an INSERT with two rows of one id in one
\* statement raises, and there is no INSERT of no row
StageEnds(values) ==
    IF values = <<>> THEN {"ok", "commit"}
    ELSE IF TwiceSameId(values) THEN {"insert"}
    ELSE {"ok", "insert", "commit"}

\* sync_nomenclature and sync_clients after the loop: the INSERT of the
\* rows, the commit, and main calls the next stage
EndLoad ==
    /\ rpc \in {"nomenclature", "clients"}
    /\ mpc = "off"
    /\ step \in {"insert", "return"}
    /\ IF step = "return"
       THEN /\ rpc' = IF rpc = "nomenclature" THEN "clients" ELSE "documents"
            /\ step' = "begin"
            /\ UNCHANGED <<records, db, work, mpc, hist>>
       ELSE \E end \in StageEnds(records) :
            IF end = "ok"
            THEN /\ work' = [work EXCEPT
                               ![Table(rpc)] = InsertValues(rpc, @, records)]
                 /\ db' = Committed(db, work')
                 /\ records' = <<>>
                 /\ rpc' = IF rpc = "nomenclature" THEN "clients"
                           ELSE "documents"
                 /\ step' = "begin"
                 /\ UNCHANGED <<mpc, hist>>
            ELSE Crash(end) /\ UNCHANGED <<records, rpc, step>>
    /\ UNCHANGED <<remoteVars, pageVars, skip, loopVars, todo, flat, caches,
                   call>>

\* the answers that the remote may give to a call of get_name_by_key: none
\* when the call issues no request
LookupAnswers(cache, key) ==
    IF get_name_by_key(cache, key, NoAnswer).requested THEN Lookups
    ELSE {NoAnswer}

\* one call of get_name_by_key of a document stage
Resolve ==
    /\ rpc = "documents"
    /\ mpc = "off"
    /\ \E site \in CallSites :
       \E key \in ResolveKeys(site[2]) :
       \E answer \in LookupAnswers(caches[site[1]], Get(key)) :
        LET r == get_name_by_key(caches[site[1]], Get(key), answer)
        IN  /\ caches' = [caches EXCEPT ![site[1]] = r.cache]
            /\ call' = [op |-> "resolve", cache |-> site[1],
                        catalog |-> site[2], key |-> Get(key),
                        answer |-> answer,
                        name |-> r.name,
                        requested |-> r.requested,
                        before |-> caches[site[1]],
                        source |-> IF r.requested THEN site[2]
                                   ELSE IF Get(key) \in DOMAIN caches[site[1]]
                                        THEN call.origin[site[1]][Get(key)]
                                        ELSE PyNone,
                        origin |-> [call.origin EXCEPT ![site[1]] =
                                      Origins(@, caches[site[1]], r.cache,
                                              site[2])]]
    /\ UNCHANGED <<remoteVars, pageVars, skip, loopVars, storeVars, mainVars,
                   hist, flat, rpc>>
(***************************************************************************)
(* The runs that are checked: their inputs and the state after             *)
(* construction.                                                           *)
(***************************************************************************)
\* a numeric field: absent, null, no number, or one of the numbers vs
NumFields(vs) == {Absent, Null, Text} \cup {Num(v) : v \in vs}

DocItem(nom, qty, price, sum_vat, sum) ==
    [nom |-> nom, qty |-> qty, price |-> price, sum_vat |-> sum_vat,
     sum |-> sum]

Doc(date, partner, contractor, items) ==
    [Date |-> date, partner |-> partner, contractor |-> contractor,
     items |-> items, pallets |-> Num(2000), logistics_fact |-> Num(5000),
     logistics_plan |-> Null, consignee |-> EMPTY_UUID]

\* a line item that gives a row, one of quantity 0, and one whose quantity
\* is no number
GoodItem == DocItem("n", Num(2000), Num(10005), Num(24000), Num(20000))

ZeroItem == DocItem("n", Num(0), Num(10000), Num(0), Num(0))

TextItem == DocItem("n", Text, Num(10000), Num(24000), Num(20000))

GoodDoc == Doc(date_to, "p", "c", <<GoodItem>>)

NoCollection == [n |-> 0, shape |-> <<GoodDoc, GoodDoc>>, faults |-> {}]

CatalogItem(key, parent, folder, type) ==
    [key |-> key, parent |-> parent, folder |-> folder, name |-> "name",
     full |-> KeyAbsent, type |-> type, unit |-> EMPTY_UUID]

NoRemote ==
    [types |-> <<>>, nomenclature |-> <<>>, clients |-> <<>>,
     purchases |-> NoCollection, sales |-> NoCollection,
     corrections |-> NoCollection, named |-> {}]

NoTables == [t \in Tables |-> NoRowsBag]

NoHist ==
    [before |-> NoTables, started |-> <<>>, failed |-> {}, crash |-> "",
     ends |-> <<>>, committed |-> {}, last |-> "none"]

NoEntry == CatalogItem("a", EMPTY_UUID, FALSE, EMPTY_UUID)

NoFlat ==
    [pc |-> "off", kind |-> "purchase", doc |-> GoodDoc, item |-> GoodItem,
     entry |-> NoEntry, out |-> NoRows]

\* rows that earlier runs left in the table of a stage
OldRows(stage) ==
    CASE stage \in Catalogs ->
            BagOfSeq(CatalogValues(stage,
                <<CatalogItem("old", "a", FALSE, "t")>>))
      [] stage = "purchases" ->
            BagOfSeq(FlattenDocs("purchase",
                [n |-> 3, faults |-> {},
                 shape |-> <<Doc(date_from, "p", "c", <<GoodItem>>),
                             Doc(date_to, "p", "c", <<GoodItem>>),
                             Doc(date_from - 1, "p", "c", <<GoodItem>>)>>],
                {}, <<0, 1, 2>>, NoneFlattened(NoCaches)).rows)
      [] stage = "sales" ->
            BagOfSeq(FlattenDocs("sale",
                [n |-> 3, faults |-> {},
                 shape |-> <<Doc(date_from, "p", "c", <<GoodItem>>),
                             Doc(date_to, "p", "c", <<GoodItem>>),
                             Doc(date_from - 1, "p", "c", <<GoodItem>>)>>],
                {}, <<0, 1, 2>>, NoneFlattened(NoCaches)).rows)

OldTables == [t \in Tables |-> OldRows(CHOOSE s \in Catalogs \cup DocStages :
                                           Table(s) = t)]

PageIdle ==
    /\ N = 0
    /\ batch_size = DocBatch
    /\ faults = {}
    /\ unprintable = {}
    /\ ppc = "idle"
    /\ skip = 0
    /\ all_docs = <<>>
    /\ problem_docs = <<>>
    /\ skip_positions = {}
    /\ stack = <<>>
    /\ requests = NoRequests

LoopsIdle ==
    /\ all_items = <<>>
    /\ consecutive_errors = 0
    /\ sales_docs = <<>>
    /\ corrections = <<>>
    /\ records = <<>>

MainIdle ==
    /\ mpc = "off"
    /\ todo = <<>>
    /\ step = "begin"
    /\ LoopsIdle
    /\ db = NoTables
    /\ work = NoTables
    /\ hist = NoHist
    /\ ResolveIdle

StagesIdle == remote = NoRemote /\ MainIdle

(***************************************************************************)
(* get_all_documents on its own.                                           *)
(***************************************************************************)
BatchSizes == (1 .. MaxSmallBatch) \cup {SplitAt + 1, 2 * SplitAt + 1}

FaultSets(n) ==
    {F \in SUBSET (0 .. n - 1) : Cardinality(F) <= MaxFaults}

PageStart ==
    /\ ppc = "main"
    /\ skip = 0
    /\ all_docs = <<>>
    /\ problem_docs = <<>>
    /\ skip_positions = {}
    /\ stack = <<>>
    /\ requests = NoRequests
    /\ StagesIdle
    /\ flat = NoFlat

\* at most one record with a null Date or Number: the first or the last
NullSets(n) == {{}} \cup {{u} : u \in {0, n - 1} \cap (0 .. n - 1)}

\* permanent faults, or a bounded number of transient failures
InitPage ==
    /\ N \in 0 .. MaxN
    /\ batch_size \in BatchSizes
    /\ unprintable \in NullSets(N)
    /\ \/ faults \in FaultSets(N) /\ transient = 0
       \/ faults = {} /\ transient \in 1 .. MaxTransient
    /\ PageStart

SpecPage == InitPage /\ [][get_all_documents]_vars

\* each request returns or raises (timeout=120) and the loops are
\* sequential, so a call that can take a step takes it
SpecPageFair == SpecPage /\ WF_vars(get_all_documents)

(***************************************************************************)
(* Flattening on its own.                                                  *)
(***************************************************************************)
FlatKeys == {"n", EMPTY_UUID, "", KeyAbsent}

FlatItems ==
    {DocItem(nom, qty, price, sum_vat, sum) :
        nom \in FlatKeys,
        qty \in NumFields({0, 3000, 10000, 0 - 1000}),
        price \in NumFields({0, 10005}),
        sum_vat \in {Absent, Text, Num(0), Num(10000), Num(150000)},
        sum \in {Absent, Null, Num(10015)}}

FlatDocs ==
    {[Date |-> date_to, partner |-> partner, contractor |-> contractor,
      items |-> <<>>, pallets |-> pallets, logistics_fact |-> Num(5000),
      logistics_plan |-> Null, consignee |-> consignee] :
        partner \in {"p", KeyAbsent}, contractor \in {"c", EMPTY_UUID},
        pallets \in {Num(2000), Text, Null},
        consignee \in {"g", EMPTY_UUID, ""}}

\* the catalog items of the flattening: every reference of an item is a
\* key, the sentinel, empty or missing, and its names are texts, empty, null
\* or missing
FlatEntries ==
    [key : FlatKeys, parent : {"a", EMPTY_UUID}, folder : BOOLEAN,
     name : {"name", "", KeyAbsent, PyNone}, full : {"full", KeyAbsent, PyNone},
     type : {"t", EMPTY_UUID}, unit : {"u", EMPTY_UUID}]

InitFlat ==
    /\ \/ /\ flat \in [pc : {"in"}, kind : {"purchase", "sale", "correction"},
                       doc : FlatDocs, item : FlatItems, entry : {NoEntry},
                       out : {NoRows}]
          /\ remote \in {[NoRemote EXCEPT !.named = n] :
                            n \in {{}, LookupCatalogs}}
       \/ /\ flat \in [pc : {"in"}, kind : Catalogs, doc : {GoodDoc},
                       item : {GoodItem}, entry : FlatEntries, out : {NoRows}]
          /\ remote = NoRemote
    /\ transient = 0
    /\ PageIdle
    /\ MainIdle

NextFlat == Flatten \/ FlattenCatalog

SpecFlat == InitFlat /\ [][NextFlat]_vars

(***************************************************************************)
(* The resolver on its own: the catalog loads of a run, then the calls of  *)
(* get_name_by_key of its document stages.                                 *)
(***************************************************************************)
InitResolve ==
    /\ caches = NoCaches
    /\ rpc = "nomenclature"
    /\ call = NoCall
    /\ remote = NoRemote
    /\ mpc = "off"
    /\ todo = <<>>
    /\ step = "begin"
    /\ LoopsIdle
    /\ db = NoTables
    /\ work = NoTables
    /\ hist = NoHist
    /\ transient = 0
    /\ PageIdle
    /\ flat = NoFlat

NextResolve == BeginLoad \/ Load \/ EndLoad \/ Resolve

SpecResolve == InitResolve /\ [][NextResolve]_vars

(***************************************************************************)
(* A catalog stage on its own.                                             *)
(***************************************************************************)
CatalogKeys == {"a", "b", EMPTY_UUID, ""}

ParentKeys == {"a", EMPTY_UUID, KeyAbsent}

\* the items of a remote catalog, by what its stage reads of them
CatalogItems(stage) ==
    CASE stage = "types" ->
            {CatalogItem(k, p, f, KeyAbsent) :
                k \in CatalogKeys, p \in ParentKeys, f \in BOOLEAN}
      [] stage = "nomenclature" ->
            {CatalogItem(k, p, FALSE, t) :
                k \in CatalogKeys, p \in {"a", EMPTY_UUID},
                t \in {"t", EMPTY_UUID}}
      [] stage = "clients" ->
            {CatalogItem(k, KeyAbsent, f, KeyAbsent) :
                k \in CatalogKeys \cup {KeyAbsent}, f \in BOOLEAN}

SeqsUpTo(S, n) == UNION {[1 .. k -> S] : k \in 0 .. n}

StageStart(at, plan) ==
    /\ mpc = at
    /\ todo = plan
    /\ step = "begin"
    /\ LoopsIdle
    /\ PageIdle
    /\ work = db
    /\ hist = [NoHist EXCEPT !.before = db]
    /\ flat = NoFlat
    /\ ResolveIdle

\* a remote catalog of n entries of distinct valid keys, none a folder
LongCatalog(n) ==
    [k \in 1 .. n |->
        CatalogItem(ToString(k), EMPTY_UUID, FALSE, EMPTY_UUID)]

\* a remote catalog that lists its first key again, with another parent,
\* as the first row of the second statement of the INSERT
TwiceListed ==
    LongCatalog(PageSize) \o <<CatalogItem("1", "a", FALSE, EMPTY_UUID)>>

InitCatalog ==
    /\ \E stage \in Catalogs :
        /\ \E items \in SeqsUpTo(CatalogItems(stage), MaxItems)
                            \cup {TwiceListed} :
            remote = [NoRemote EXCEPT ![stage] = items]
        /\ db \in {NoTables, OldTables}
        /\ StageStart("stage", <<stage>>)
    /\ transient \in {0, 1}

NextCatalog ==
    \/ CatalogBegin
    \/ CatalogRequest
    \/ CatalogDelete
    \/ CatalogInsert
    \/ Commit
    \/ EndStage

SpecCatalog == InitCatalog /\ [][NextCatalog]_vars

(***************************************************************************)
(* A catalog stage on its own, over a remote catalog of more than one     *)
(* page.                                                                   *)
(***************************************************************************)
\* the tables that an earlier run of the stage left, having fetched all of
\* items
StoredBefore(stage, items) ==
    [NoTables EXCEPT ![Table(stage)] = BagOfSeq(CatalogValues(stage, items))]

InitLongCatalog ==
    /\ \E stage \in Catalogs, n \in CatalogBatch .. CatalogBatch + MaxTail :
        /\ remote = [NoRemote EXCEPT ![stage] = LongCatalog(n)]
        /\ db = StoredBefore(stage, LongCatalog(n))
        /\ StageStart("stage", <<stage>>)
    /\ transient \in {0, 1}

SpecLongCatalog == InitLongCatalog /\ [][NextCatalog]_vars

(***************************************************************************)
(* The two paging loops of sync_sales on their own, against a remote that  *)
(* may fail any request, any number of times.                              *)
(***************************************************************************)
\* collections of less than a batch, of one batch, of more, of two batches
LongCollections ==
    {[n |-> n, shape |-> <<d, GoodDoc>>, faults |-> {}] :
        n \in {0, 1, SalesBatch, SalesBatch + 1, 2 * SalesBatch},
        d \in {GoodDoc, Doc(date_to + 1, "p", "c", <<GoodItem>>),
               Doc(NullDate, "p", "c", <<GoodItem>>)}}

InitSalesLoops ==
    /\ \E c \in LongCollections, k \in LongCollections :
        /\ k.n <= SalesBatch
        /\ remote = [NoRemote EXCEPT !.sales = c, !.corrections = k]
    /\ db = NoTables
    /\ StageStart("stage", <<"sales">>)
    /\ transient \in {0, Unlimited}

NextSalesLoops == SalesBegin \/ SalesRequest \/ CorrRequest

\* each request of a loop returns or raises (timeout=120), and the loop
\* goes on
SpecSalesLoops ==
    InitSalesLoops /\ [][NextSalesLoops]_vars /\ WF_vars(NextSalesLoops)

(***************************************************************************)
(* A document stage run twice in a row over the same window, against a     *)
(* remote that answers every request the same way.                         *)
(***************************************************************************)
DocDates == {date_from, date_to, date_to + 1, BadDate, NullDate}

ItemLists == {<<GoodItem>>, <<ZeroItem>>, <<GoodItem, TextItem>>}

Docs == {Doc(d, "p", "c", items) : d \in DocDates, items \in ItemLists}

\* the collections of at most n documents, the document at offset i being
\* the first or the second of a pair of documents of D as i is even or odd,
\* of which at most one offset fails permanently
Collections(D, n) ==
    {c \in [n : 0 .. n, shape : D \X D,
            faults : {{}} \cup {{f} : f \in 0 .. n - 1}] :
        /\ c.faults \subseteq 0 .. c.n - 1
        /\ c.n < 2 => c.shape[2] = c.shape[1]
        /\ c.n = 0 => c.shape[1] = GoodDoc}

\* the remote catalogs that have the entities looked up: none, all, or all
\* but the partners
NamedSets ==
    {{}, LookupCatalogs, LookupCatalogs \ {"Catalog_Partners"}}

FewDocs == {Doc(d, "p", "c", <<GoodItem>>) : d \in {date_to, date_to + 1}}

InitDocs ==
    /\ \E stage \in DocStages :
        /\ \/ /\ stage = "purchases"
              /\ \E c \in Collections(Docs, MaxDocs), named \in NamedSets :
                    remote = [NoRemote EXCEPT !.purchases = c,
                                              !.named = named]
           \/ /\ stage = "sales"
              /\ \E c \in Collections(Docs, MaxDocs),
                    k \in Collections(FewDocs, 1), named \in NamedSets :
                    remote = [NoRemote EXCEPT !.sales = c, !.corrections = k,
                                              !.named = named]
        /\ db \in {NoTables, OldTables}
        /\ StageStart("stage", <<stage, stage>>)
    /\ transient = 0

NextDocs ==
    \/ PurchasesBegin
    \/ MainRequest
    \/ MainResume
    \/ ProbeOffset
    \/ BisectFirst
    \/ BisectSecond
    \/ PurchasesFlatten
    \/ SalesBegin
    \/ SalesRequest
    \/ CorrRequest
    \/ SalesFlatten
    \/ DocDelete
    \/ DocInsert
    \/ Commit
    \/ EndStage

SpecDocs == InitDocs /\ [][NextDocs]_vars

(***************************************************************************)
(* main.                                                                   *)
(***************************************************************************)
KeyNames == <<"a", "b", "c", "d">>

\* the catalog of the first n keys
CatalogOf(n) ==
    [k \in 1 .. Min(n, Len(KeyNames)) |->
        CatalogItem(KeyNames[k], EMPTY_UUID, FALSE, "t")]

RunCollections ==
    {[n |-> k, shape |-> <<GoodDoc>>, faults |-> F] :
        k \in 0 .. MaxDocs, F \in {{}, {0}}}

InitRun ==
    /\ \E a \in {0, MaxItems}, named \in {{}, LookupCatalogs},
          p, s \in {x \in RunCollections : x.faults \subseteq 0 .. x.n - 1} :
        remote = [types |-> CatalogOf(a), nomenclature |-> CatalogOf(a),
                  clients |-> CatalogOf(MaxItems),
                  purchases |-> p, sales |-> s,
                  corrections |-> [n |-> 1, shape |-> <<GoodDoc>>,
                                   faults |-> {}],
                  named |-> named]
    /\ db \in {NoTables, OldTables}
    /\ StageStart("test_connection", MainPlan)
    /\ transient \in {0, 1}

NextRun ==
    \/ TestConnection
    \/ PgConnect
    \/ CatalogBegin
    \/ CatalogRequest
    \/ CatalogDelete
    \/ CatalogInsert
    \/ PurchasesBegin
    \/ MainRequest
    \/ MainResume
    \/ ProbeOffset
    \/ BisectFirst
    \/ BisectSecond
    \/ PurchasesFlatten
    \/ SalesBegin
    \/ SalesRequest
    \/ CorrRequest
    \/ SalesFlatten
    \/ DocDelete
    \/ DocInsert
    \/ Commit
    \/ EndStage

SpecRun == InitRun /\ [][NextRun]_vars

(***************************************************************************)
(* Claims about get_all_documents.                                         *)
(***************************************************************************)
ProblemPositions == {problem_docs[k].pos : k \in DOMAIN problem_docs}

\* C1: when exactly one offset p < N fails permanently (every request whose
\* range covers p fails, every other request succeeds), the call returns
\* exactly the N-1 records at the other offsets and records exactly the one
\* offset p as a problem record, for every N and batch size.
C1_FaultIsolation ==
    (ppc \in {"done", "raised"} /\ transient = 0 /\ Cardinality(faults) = 1)
        => /\ ppc = "done"
           /\ Len(all_docs) = N - 1
           /\ Range(all_docs) = (0 .. N - 1) \ faults
           /\ Len(problem_docs) = 1
           /\ ProblemPositions = faults

\* the same of the collections whose records all have a Date and a Number
\* that are not null
FaultIsolationOfPrintableRecords == unprintable = {} => C1_FaultIsolation

\* a call over several batches that bisected a range and isolated one offset
C1_Witness ==
    /\ ppc = "done"
    /\ Cardinality(faults) = 1
    /\ batch_size > SplitAt
    /\ N > batch_size
    /\ Len(all_docs) = N - 1
    /\ Len(problem_docs) = 1

\* C2: get_all_documents always terminates, whatever requests fail: the
\* call eventually returns its result list, so a call that takes no further
\* step has returned it.
C2_Terminates ==
    ppc = "done" \/ ENABLED get_all_documents

\* against a remote that fails finitely many requests beside its permanent
\* faults the call ends: it returns its list or raises
EndsAfterFiniteFailures == <>(ppc \in {"done", "raised"})

\* the same of the collections whose records all have a Date and a Number
\* that are not null: the call returns its list
ReturnsOfPrintableRecords == unprintable = {} => <>(ppc = "done")

(***************************************************************************)
(* Claims about the document stages.                                       *)
(***************************************************************************)
\* C3: a document stage run twice in a row over the same window, against
\* unchanged remote data that answers every request the same way, leaves
\* its table after the second run with exactly the rows it had after the
\* first: no row is duplicated, no row is lost.
C3_Idempotent ==
    (mpc = "done" /\ Len(hist.ends) = 2) =>
        /\ hist.ends[2].table = hist.ends[1].table
        /\ db[Table(hist.ends[2].stage)] = hist.ends[1].table

\* both runs completed, the runs committed rows of the window, and rows of
\* earlier runs were in the table
C3_Witness ==
    /\ mpc = "done"
    /\ Len(hist.ends) = 2
    /\ hist.committed # {}
    /\ WindowRows(hist.ends[1].table) # NoRowsBag
    /\ hist.ends[1].table # WindowRows(hist.ends[1].table)

\* C4: when the INSERT of a windowed replace fails after the DELETE was
\* executed, the durable rows of the window are exactly those from before
\* the stage started: the DELETE is never durable without the INSERT.
C4_WindowAtomic ==
    (mpc = "crashed" /\ hist.crash = "insert" /\ Stage \in DocStages) =>
        /\ WindowRows(db[Table(Stage)])
               = WindowRows(hist.before[Table(Stage)])
        /\ db = hist.before

\* the INSERT failed after a DELETE that had removed rows of the window
C4_Witness ==
    /\ mpc = "crashed"
    /\ hist.crash = "insert"
    /\ Stage \in DocStages
    /\ records # <<>>
    /\ WindowRows(db[Table(Stage)]) # NoRowsBag

\* C6, as the spec states it: after a document stage completes, the rows of
\* its table whose date lies in the window are exactly the rows computed in
\* this run, for every computed row set.
C6_WindowReplaced ==
    (Running(step = "return") /\ Stage \in DocStages) =>
        WindowRows(db[Table(Stage)]) = BagOfSeq(records)

\* C6, amended: after a document stage completes having computed at least
\* one row, the rows of its table whose date lies in the window are exactly
\* the rows computed in this run; a stage that computed no row leaves the
\* table as it was.
C6_WindowReplacedNonEmpty ==
    (Running(step = "return") /\ Stage \in DocStages) =>
        /\ records # <<>> =>
              WindowRows(db[Table(Stage)]) = BagOfSeq(records)
        /\ records = <<>> => db = hist.before

\* a stage completed that computed rows and found rows of earlier runs in
\* the window
C6_Witness ==
    /\ Running(step = "return")
    /\ Stage \in DocStages
    /\ records # <<>>
    /\ WindowRows(hist.before[Table(Stage)]) # NoRowsBag
    /\ WindowRows(hist.before[Table(Stage)]) # BagOfSeq(records)

\* the offsets of the documents of the window that a collection holds
\* outside its failing offsets
Fetchable(c) ==
    {o \in (0 .. c.n - 1) \ c.faults :
        DocAt(c, o).Date \notin {BadDate, NullDate}
        /\ InWindow(DocAt(c, o).Date)}

\* C7: in the purchases stage and in the sales stage (sales documents and
\* corrections), when one offset of the remote collection always fails,
\* exactly that record is left out and every other record of the
\* collection is fetched.
C7_FaultIsolatedInEveryStage ==
    /\ (Running(step = "paging" /\ ppc = "done") /\ Cardinality(faults) = 1)
          => /\ Range(all_docs) = (0 .. N - 1) \ faults
             /\ ProblemPositions = faults
    /\ (Running(step = "flatten") /\ Stage = "sales"
        /\ Cardinality(remote.sales.faults) = 1)
          => Range(sales_docs) = Fetchable(remote.sales)
    /\ (Running(step = "flatten") /\ Stage = "sales"
        /\ Cardinality(remote.corrections.faults) = 1)
          => Range(corrections) = Fetchable(remote.corrections)

(***************************************************************************)
(* Claims about the catalog stages.                                        *)
(***************************************************************************)
\* the table holds the rows values and no other: one row for every id of
\* values, with the name and the parent reference of the last row of that
\* id; when no id comes twice, exactly the rows of values
HoldsExactly(table, values) ==
    LET ids == {values[k].id : k \in DOMAIN values}
        last(id) == LET at == {k \in DOMAIN values : values[k].id = id}
                    IN  values[CHOOSE k \in at : \A j \in at : j <= k]
        Parent(r) == IF "parent_id" \in DOMAIN r THEN r.parent_id ELSE PyNone
    IN  /\ StoredIds(table) = ids
        /\ BagCardinality(table) = Cardinality(ids)
        /\ \A r \in BagToSet(table) :
              /\ r.name = last(r.id).name
              /\ Parent(r) = Parent(last(r.id))
        /\ Cardinality(ids) = Len(values) => table = SetToBag(Range(values))

\* C5, as the spec states it: after a catalog stage completes, its table
\* holds exactly the rows of the entries fetched from the remote catalog
\* (those with a valid key; for clients, the non-folder ones), each with
\* the fetched parent reference, for every content of the remote catalog.
C5_FullReplace ==
    (Running(step = "return") /\ Stage \in Catalogs) =>
        HoldsExactly(db[Table(Stage)], CatalogValues(Stage, all_items))

\* C5, amended: after a catalog stage completes having fetched at least one
\* entry, its table holds exactly the rows of the fetched entries (those
\* with a valid key; for clients, the non-folder ones), each with the
\* fetched parent reference, an entry that the fetch lists twice being
\* stored once, as listed last; a stage that fetched no entry leaves the
\* table as it was.
C5_FullReplaceFetched ==
    (Running(step = "return") /\ Stage \in Catalogs) =>
        /\ all_items # <<>> =>
              HoldsExactly(db[Table(Stage)], CatalogValues(Stage, all_items))
        /\ all_items = <<>> => db = hist.before

\* a stage completed that fetched two entries, stored one of them and
\* found rows of earlier runs in its table
C5_Witness ==
    /\ Running(step = "return")
    /\ Stage \in Catalogs
    /\ Len(all_items) = 2
    /\ BagCardinality(db[Table(Stage)]) = 1
    /\ hist.before[Table(Stage)] # NoRowsBag
    /\ hist.before[Table(Stage)] # db[Table(Stage)]

(***************************************************************************)
(* Claims about main.                                                      *)
(***************************************************************************)
StoreFailures == {"delete", "insert", "commit"}

\* C8: the stages run strictly in the order types, nomenclature, clients,
\* purchases, sales, and a stage never starts unless its predecessor
\* completed successfully: a stage whose remote fetch failed or whose store
\* transaction failed has not.
C8_StageOrdering ==
    /\ Len(hist.started) <= Len(MainPlan)
    /\ hist.started = SubSeq(MainPlan, 1, Len(hist.started))
    /\ \A i \in 2 .. Len(hist.started) :
          hist.started[i - 1] \notin hist.failed
    /\ hist.crash \in StoreFailures =>
          hist.started[Len(hist.started)] = Stage

\* C9: when a store statement of a stage fails, the stage's uncommitted
\* DELETE and INSERT are not durable, no later stage runs, and the rows
\* that the earlier stages of the run committed are in the store unchanged.
C9_StoreFailure ==
    hist.crash \in StoreFailures =>
        /\ mpc = "crashed"
        /\ db = hist.before
        /\ hist.started[Len(hist.started)] = Stage
        /\ Len(hist.ends) = Len(hist.started) - 1
        /\ \A k \in DOMAIN hist.ends :
              db[Table(hist.ends[k].stage)] = hist.ends[k].table

\* the INSERT of a stage failed after its DELETE had removed rows, in a
\* run of which an earlier stage had committed rows
C9_Witness ==
    /\ hist.crash = "insert"
    /\ mpc = "crashed"
    /\ hist.committed # {}
    /\ db[Table(Stage)] # NoRowsBag
    /\ \E k \in DOMAIN hist.ends : hist.ends[k].table # NoRowsBag

(***************************************************************************)
(* Claims about the flattening.                                            *)
(***************************************************************************)
\* C10: a purchase line item with quantity q > 0, a price absent or zero
\* and a tax-inclusive total t present gives a record whose unit price is
\* t / q (q = 10 and t = 150 give 15.00).
C10_DerivedPrice ==
    (/\ flat.pc = "out"
     /\ flat.kind = "purchase"
     /\ flat.item.qty.k = "num" /\ flat.item.qty.v > 0
     /\ flat.item.price \in {Absent, Num(0)}
     /\ flat.item.sum_vat.k = "num" /\ flat.item.sum_vat.v > 0) =>
        /\ Len(flat.out.rows) = 1
        /\ flat.out.rows[1].price
               = RoundDiv2(flat.item.sum_vat.v, flat.item.qty.v)

\* the line item of the flattening has a nomenclature reference that is
\* kept, and fields that are numbers or missing
PlainItem ==
    /\ ~Falsy(Get(flat.item.nom))
    /\ Get(flat.item.nom) # EMPTY_UUID
    /\ \A f \in {flat.item.qty, flat.item.price, flat.item.sum_vat,
                 flat.item.sum} : f.k # "text"

\* C11: a correction line item with quantity q # 0 and tax-inclusive total
\* t gives a record whose unit price is t / q (q = 5 and t = 50 give
\* 10.00), with pallet count 0 and both logistics costs 0, whatever the
\* document header and the other fields of the line item carry.
C11_CorrectionPrice ==
    (/\ flat.pc = "out"
     /\ flat.kind = "correction"
     /\ PlainItem
     /\ flat.item.qty.k = "num" /\ flat.item.qty.v # 0
     /\ flat.item.sum_vat.k = "num") =>
        /\ Len(flat.out.rows) = 1
        /\ flat.out.rows[1].price
               = RoundDiv2(flat.item.sum_vat.v, flat.item.qty.v)
        /\ flat.out.rows[1].pallets_count = 0
        /\ flat.out.rows[1].logistics_cost_fact = 0
        /\ flat.out.rows[1].logistics_cost_plan = 0

\* the last use of a cache was a call of get_name_by_key
Resolved == call.op = "resolve"

\* C12: get_name_by_key returns None for every key that is empty or the
\* sentinel, issues no request and leaves the cache as it was, whatever the
\* cache holds.
C12_EmptyKey ==
    (Resolved /\ (Falsy(call.key) \/ call.key = EMPTY_UUID)) =>
        /\ call.name = PyNone
        /\ ~call.requested
        /\ caches[call.cache] = call.before

C12_Witness ==
    /\ Resolved
    /\ call.key = EMPTY_UUID
    /\ call.before # NoCache

\* the last use of a cache was a call of get_name_by_key whose request
\* failed
FailedLookup ==
    /\ Resolved
    /\ call.requested
    /\ call.answer.kind # "200"

\* C13: a call of get_name_by_key whose request fails (timeout, status
\* other than 200, malformed body) returns None and leaves every cache as
\* it was, and the next call for the same key through the same cache issues
\* a request again and, when that one succeeds, returns and caches its name.
C13_FailureNotCached ==
    [][/\ FailedLookup' /\ call' # call =>
            /\ call'.name = PyNone
            /\ caches' = caches
       /\ (/\ FailedLookup
           /\ Resolved' /\ call' # call
           /\ call'.cache = call.cache /\ call'.key = call.key) =>
            /\ call'.requested
            /\ call'.answer.kind = "200" =>
                /\ call'.name = GetOrEmpty(call'.answer.Description)
                /\ caches'[call.cache][call.key] = call'.name]_vars

C13_Witness ==
    /\ FailedLookup
    /\ call.answer = TimedOut
    /\ call.before # NoCache

\* the keys that cache c holds before a step stay in it with their names
EntriesKept(c) ==
    \A k \in DOMAIN caches[c] :
        /\ k \in DOMAIN caches'[c]
        /\ caches'[c][k] = caches[c][k]

\* a call of get_name_by_key for a key that the cache holds returns the
\* cached name and issues no request
HitReturnsCached ==
    (Resolved' /\ call'.key \in DOMAIN caches[call'.cache]) =>
        /\ call'.name = caches[call'.cache][call'.key]
        /\ ~call'.requested

\* C14: once a key is in a cache with a name it stays there with that name
\* for the rest of the run, neither evicted nor overwritten, and every
\* later call of get_name_by_key for it returns that name without a
\* request.
C14_CacheStable ==
    [][(\A c \in DOMAIN caches : EntriesKept(c)) /\ HitReturnsCached]_vars

\* C14, amended: no key ever leaves a cache; no call of get_name_by_key
\* changes the name of a key that the cache holds, so from the first
\* document stage on every entry keeps its name and every call for a cached
\* key returns that name without a request; the name of a cached key is
\* replaced only by the loop of a catalog stage, when the catalog fetched
\* lists the key again.
C14_CacheStableAfterLoads ==
    [][/\ \A c \in DOMAIN caches : DOMAIN caches[c] \subseteq DOMAIN caches'[c]
       /\ (Resolved' \/ rpc = "documents") =>
              \A c \in DOMAIN caches : EntriesKept(c)
       /\ HitReturnsCached
       /\ \A c \in DOMAIN caches :
              ~EntriesKept(c) =>
                  /\ call'.op = "load"
                  /\ call'.cache = c
                  /\ call'.key \in DOMAIN caches[c]
                  /\ caches'[c] = Put(caches[c], call'.key, call'.name)]_vars

C14_Witness ==
    /\ Resolved
    /\ call.key \in DOMAIN call.before
    /\ call.name = "A"
    /\ ~call.requested
    /\ caches[call.cache] = call.before

\* C15: whatever fields of a document or line item are missing, null or no
\* numbers, flattening the line item raises no exception: it gives a row by
\* the default rules or skips the item.
C15_NeverRaises ==
    flat.pc = "out" => ~flat.out.raised

\* C16: in the flattening of purchases, of sales and of corrections, a line
\* item whose nomenclature reference is missing, empty or the sentinel
\* gives no row.
C16_NoNomenclatureNoRow ==
    (/\ flat.pc = "out"
     /\ Falsy(Get(flat.item.nom)) \/ Get(flat.item.nom) = EMPTY_UUID) =>
        flat.out.rows = <<>>

\* the columns of a row of the given kind that hold references, the id of a
\* catalog row included
References(kind, row) ==
    CASE kind = "types" -> {row.id, row.parent_id}
      [] kind = "nomenclature" ->
            {row.id, row.parent_id, row.type_id, row.unit_id}
      [] kind = "clients" -> {row.id}
      [] kind = "purchase" -> {row.contractor_id, row.nomenclature_id}
      [] OTHER -> {row.client_id, row.consignee_id, row.nomenclature_id}

\* C17: no row that a stage computes holds the sentinel in a reference
\* column (parent_id, type_id, unit_id, client_id, consignee_id,
\* contractor_id, nomenclature_id), and no catalog row has the sentinel as
\* its id.
C17_SentinelNeverStored ==
    flat.pc = "out" =>
        \A i \in DOMAIN flat.out.rows :
            EMPTY_UUID \notin References(flat.kind, flat.out.rows[i])

\* a row computed from a record that carries the sentinel in a reference
C17_Witness ==
    /\ flat.pc = "out"
    /\ flat.out.rows # <<>>
    /\ flat.kind = "nomenclature"
    /\ flat.entry.parent = EMPTY_UUID
    /\ flat.entry.type = EMPTY_UUID
    /\ flat.entry.unit = EMPTY_UUID

\* C18: a purchase line item whose quantity is missing, zero or negative
\* gives no row, and every purchase line item of a quantity above zero
\* gives exactly one row.
C18_PurchaseQuantity ==
    (flat.pc = "out" /\ flat.kind = "purchase") =>
        /\ (\/ flat.item.qty.k \in {"absent", "null"}
            \/ flat.item.qty.k = "num" /\ flat.item.qty.v <= 0) =>
               flat.out.rows = <<>>
        /\ (flat.item.qty.k = "num" /\ flat.item.qty.v > 0) =>
               Len(flat.out.rows) = 1

\* the same of the line items whose price and sums are numbers or missing
PurchaseQuantityOfPlainItems ==
    (/\ flat.item.price.k # "text"
     /\ flat.item.sum_vat.k # "text"
     /\ flat.item.sum.k # "text") => C18_PurchaseQuantity

\* the rows of a table whose date lies outside the window
OutsideRows(b) ==
    [r \in {x \in DOMAIN b : ~InWindow(x.doc_date)} |-> b[r]]

\* C19: a document stage never deletes, changes or inserts a row whose date
\* lies outside the window: at every moment of the stage the rows of its
\* table outside the window, durable and as the connection sees them, are
\* those from before the stage.
C19_OutsideUntouched ==
    \A s \in DocStages :
        /\ OutsideRows(db[Table(s)]) = OutsideRows(hist.before[Table(s)])
        /\ OutsideRows(work[Table(s)]) = OutsideRows(hist.before[Table(s)])

\* a document stage replaced the rows of the window of a table that holds
\* rows outside the window
C19_Witness ==
    /\ Running(step = "return")
    /\ Stage \in DocStages
    /\ records # <<>>
    /\ OutsideRows(db[Table(Stage)]) # NoRowsBag
    /\ WindowRows(db[Table(Stage)])
           # WindowRows(hist.before[Table(Stage)])

\* C20: when the INSERT of a catalog stage fails after its DELETE of the
\* whole table was executed, the durable contents of the catalog's table,
\* and of every other table, are those from before the stage started.
C20_CatalogAtomic ==
    (mpc = "crashed" /\ hist.crash = "insert" /\ Stage \in Catalogs) =>
        /\ db[Table(Stage)] = hist.before[Table(Stage)]
        /\ db = hist.before
        /\ work = db

\* the INSERT of a catalog stage failed after the DELETE had emptied a
\* table that held rows
C20_Witness ==
    /\ mpc = "crashed"
    /\ hist.crash = "insert"
    /\ Stage \in Catalogs
    /\ records # <<>>
    /\ db[Table(Stage)] # NoRowsBag

\* C21: when the connectivity check of the remote fails at the start of the
\* run, or the connection to the store cannot be opened, the run ends
\* before any stage: nothing is fetched from a remote collection, no row of
\* the store is deleted or inserted, and main does nothing more.
C21_ConnectFailureHalts ==
    mpc \in {"no_1c", "no_pg"} =>
        /\ hist.started = <<>>
        /\ PageIdle /\ LoopsIdle
        /\ records = <<>>
        /\ db = hist.before
        /\ work = hist.before
        /\ ~ENABLED NextRun

\* the connectivity check failed in a run whose store holds rows and whose
\* remote holds documents
C21_Witness ==
    /\ mpc = "no_1c"
    /\ db = OldTables
    /\ remote.purchases.n > 0
    /\ todo = MainPlan

\* every request that failed covers a permanently failing offset: no
\* transient failure has occurred
OnlyPermanentFailures ==
    \A r \in requests.failed : Covers(faults, r[1], r[2])

\* C22: for every collection size N, every batch size and every set F of
\* permanently failing offsets below N, a request failing exactly when its
\* range covers an offset of F, get_all_documents returns exactly the
\* records at the offsets of 0 .. N-1 outside F, each once, and records
\* exactly the offsets of F as problem records, each once.
C22_MultiFaultIsolation ==
    (ppc \in {"done", "raised"} /\ OnlyPermanentFailures) =>
        /\ ppc = "done"
        /\ Range(all_docs) = (0 .. N - 1) \ faults
        /\ Len(all_docs) = N - Cardinality(faults)
        /\ ProblemPositions = faults
        /\ Len(problem_docs) = Cardinality(faults)

\* the same of the collections whose records all have a Date and a Number
\* that are not null
MultiFaultIsolationOfPrintableRecords ==
    unprintable = {} => C22_MultiFaultIsolation

\* a call that bisected a batch holding two failing offsets, one in each
\* half
C22_Witness ==
    /\ ppc = "done"
    /\ OnlyPermanentFailures
    /\ batch_size > SplitAt
    /\ \E f, g \in faults :
          /\ f < Mid(batch_size) /\ Mid(batch_size) <= g /\ g < batch_size
          /\ {<<0, Mid(batch_size)>>, <<Mid(batch_size), Rest(batch_size)>>}
                 \subseteq requests.failed
    /\ Len(all_docs) = N - 2

\* C23: a record below the end of the collection is missing from the result
\* only if a request of the single record at exactly its offset failed; the
\* failure of a larger request that covers it does not exclude it.
C23_LostOnlyBySingleFailure ==
    ppc = "done" =>
        \A o \in 0 .. N - 1 :
            o \notin Range(all_docs) => <<o, 1>> \in requests.failed

\* a call in which a full batch and a half of it failed transiently and
\* that lost no record
C23_Witness ==
    /\ ppc = "done"
    /\ faults = {}
    /\ batch_size > SplitAt
    /\ <<0, batch_size>> \in requests.failed
    /\ <<0, Mid(batch_size)>> \in requests.failed
    /\ N > SplitAt
    /\ Range(all_docs) = 0 .. N - 1

\* C24: the requests of a full batch are issued at the offsets 0,
\* batch_size, 2 * batch_size, ... in this order, whether they fail or not:
\* after the request at offset o failed and the range o .. o+batch_size-1
\* was searched, the next one is at o + batch_size, and none is issued
\* twice for one offset. While the range is searched no other full batch is
\* requested.
C24_ResumeAfterFailure ==
    /\ \A k \in DOMAIN requests.batches :
          requests.batches[k] = (k - 1) * batch_size
    /\ ppc = "find" =>
          /\ requests.batches # <<>>
          /\ requests.batches[Len(requests.batches)] = skip
          /\ <<skip, batch_size>> \in requests.failed

\* a full batch failed, its range was searched and two more full batches
\* were requested
C24_Witness ==
    /\ ppc = "done"
    /\ Len(requests.batches) >= 3
    /\ <<0, batch_size>> \in requests.failed
    /\ batch_size > 1

\* C25: when no request fails, get_all_documents returns all N records, in
\* the order of their offsets, for every N >= 0 and every batch size, N = 0
\* and N a multiple of the batch size included; it requests the offsets 0,
\* batch_size, 2 * batch_size, ... and stops at the first page that is
\* empty or shorter than batch_size, which is the page at the offset
\* (N div batch_size) * batch_size.
C25_ErrorFreePaging ==
    (ppc = "done" /\ requests.failed = {}) =>
        /\ all_docs = [k \in 1 .. N |-> k - 1]
        /\ requests.batches
               = [k \in 1 .. (N \div batch_size) + 1 |-> (k - 1) * batch_size]
        /\ problem_docs = <<>>

\* a call without failures over a collection of twice the batch size, which
\* ends on an empty third page
C25_Witness ==
    /\ ppc = "done"
    /\ requests.failed = {}
    /\ batch_size > 1
    /\ N = 2 * batch_size
    /\ Len(requests.batches) = 3
    /\ Len(all_docs) = N

\* C26: once an offset is recorded as a problem record, its record is not
\* added to the result later in the call, not even when a later probe of
\* that offset (made to describe a neighbour) succeeds; and every offset is
\* recorded as a problem record at most once.
C26_ProblemSkippedForGood ==
    /\ [](Len(problem_docs) = Cardinality(ProblemPositions))
    /\ [][\A k \in DOMAIN all_docs' :
              k \notin DOMAIN all_docs => all_docs'[k] \notin ProblemPositions]_vars

\* the probe of an offset failed and the offset was recorded; the probe of
\* the next offset failed too and the probe made to describe its neighbour
\* before it, the recorded offset, succeeded: the call ended without its
\* record
C26_Witness ==
    /\ ppc = "done"
    /\ \E i, j \in DOMAIN problem_docs :
          /\ i < j
          /\ problem_docs[j].pos = problem_docs[i].pos + 1
          /\ problem_docs[j].before
          /\ problem_docs[i].pos \notin Range(all_docs)
    /\ all_docs # <<>>


\* C27: when the lookup of get_name_by_key succeeds and the body has no
\* display field, the name of a further name field of the body is returned
\* and cached and, when the body has none, the literal "unnamed": never an
\* empty string or null.
C27_DisplayNameFallback ==
    (/\ call.op = "resolve"
     /\ call.requested
     /\ call.answer.kind = "200"
     /\ call.answer.Description = KeyAbsent)
        => LET name == IF call.answer.FullName # KeyAbsent
                       THEN call.answer.FullName ELSE "unnamed"
           IN  /\ call.name = name
               /\ call.key \in DOMAIN caches[call.cache]
               /\ caches[call.cache][call.key] = name

\* a call of get_name_by_key returned a name of the cache
CacheHit ==
    /\ call.op = "resolve"
    /\ ~call.requested
    /\ call.key \in DOMAIN call.before

\* C28: a call of get_name_by_key for a key of a catalog returns a cached
\* name only if that name was obtained from the same catalog.
C28_CachePerCatalog == CacheHit => call.source = call.catalog

\* C29: no transaction spans two stages: whenever a stage is about to
\* start, the connection holds no uncommitted change, so every DELETE and
\* INSERT that a stage executed was committed by that stage, or the run was
\* aborted, before the next stage starts.
C29_NoCrossStageTransaction == step = "begin" => work = db

\* the sales stage is about to start after the purchases stage replaced the
\* rows of its window and committed
C29_Witness ==
    /\ mpc = "stage"
    /\ step = "begin"
    /\ Stage = "sales"
    /\ "purchases" \in hist.committed
    /\ db.purchase_prices # OldTables.purchase_prices

\* C30: a catalog stage never removes from the store an entry that is still
\* in the remote catalog (with a valid key; for clients a non-folder one)
\* without inserting it again, even when a page request fails partway
\* through the fetch of the catalog.
C30_RemoteEntriesKept ==
    \A stage \in Catalogs :
        LET before == StoredIds(hist.before[Table(stage)])
            stored == StoredIds(db[Table(stage)])
        IN  \A k \in DOMAIN remote[stage] :
                LET item == remote[stage][k]
                IN  (~SkippedItem(stage, item) /\ Get(item.key) \in before)
                        => Get(item.key) \in stored

\* C31: the list that get_all_documents builds holds its records in strictly
\* increasing order of their offsets, at every step and for every batch size
\* and failure pattern: no record twice, no two records swapped.
C31_IncreasingOffsets ==
    \A i, j \in DOMAIN all_docs : i < j => all_docs[i] < all_docs[j]

\* a call ended that bisected a failed batch, lost a record inside it and
\* fetched records on both sides of the lost one and beyond the batch
C31_Witness ==
    /\ ppc = "done"
    /\ batch_size > SplitAt
    /\ N > batch_size
    /\ \E f \in ProblemPositions :
          /\ f > 0
          /\ f + 1 < batch_size
          /\ f - 1 \in Range(all_docs)
          /\ f + 1 \in Range(all_docs)
    /\ N - 1 \in Range(all_docs)

\* the collection that the paging loop in progress reads
LoopCollection ==
    IF step = "sales_loop" THEN remote.sales ELSE remote.corrections

InLoop == step \in {"sales_loop", "corr_loop"}

\* the iteration just made ended the loop for one of the reasons of the
\* code: an empty or short page, a status other than 200 and 500, or the
\* tenth failed batch in a row
EndedForReason ==
    LET page == PageOf(LoopCollection.n, skip, SalesBatch)
    IN  \/ hist'.last = "other"
        \/ hist'.last = "ok" /\ Len(page) < SalesBatch
        \/ consecutive_errors = MaxConsecutiveErrors - 1

\* C32: each of the two paging loops of sync_sales ends, whatever requests
\* fail: it ends only on an empty or short page, on a status other than 200
\* and 500, or on the tenth failed batch in a row; a batch that succeeds
\* sets the count of failures in a row to 0, so the count of a loop in
\* progress stays below 10.
C32_SalesLoopsTerminate ==
    /\ <>(step = "flatten")
    /\ [](InLoop => consecutive_errors < MaxConsecutiveErrors)
    /\ [][(InLoop /\ step' # step) => EndedForReason]_vars
    /\ [][(InLoop /\ step' = step /\ skip' # skip
             /\ consecutive_errors' # consecutive_errors + 1)
                => consecutive_errors' = 0]_vars

\* the loop over the corrections kept the documents of a first batch, then
\* had ten batches in a row fail and gave up
C32_Witness ==
    /\ step = "flatten"
    /\ consecutive_errors = MaxConsecutiveErrors
    /\ corrections # <<>>
    /\ skip = (MaxConsecutiveErrors + 1) * SalesBatch
    /\ sales_docs # <<>>

\* C33: every row that a document stage computes and inserts has a document
\* date d with date_from <= d <= date_to: the rows of the window that the
\* table holds after the insert are the rows computed. So once a later run
\* of the stage over the same window has executed its delete, no row that
\* the earlier run inserted is left.
C33_InsertedInsideWindow ==
    \A s \in DocStages :
        /\ (todo # <<>> /\ Stage = s) =>
              \A k \in DOMAIN records : SqlBetween(records[k].doc_date)
        /\ Running(Stage = s /\ step = "insert") =>
              \A r \in BagToSet(work[Table(s)]) : ~SqlBetween(r.doc_date)
        /\ Running(Stage = s /\ step = "commit") =>
              \A r \in BagToSet(work[Table(s)]) :
                 SqlBetween(r.doc_date) <=> r \in Range(records)

\* the second run of a stage has executed its delete, after the first run
\* inserted rows of the window; the remote holds a document dated the day
\* after the window
C33_Witness ==
    /\ Running(step = "insert")
    /\ Stage \in DocStages
    /\ Len(hist.ends) = 1
    /\ WindowRows(hist.ends[1].table) # NoRowsBag
    /\ records # <<>>
    /\ remote[Stage].n = 2
    /\ \E k \in 1 .. 2 : remote[Stage].shape[k].Date = date_to + 1

\* the steps of a stage between its first statement and its commit
StoreSteps == {"delete", "insert", "commit"}

\* C34: a catalog stage whose fetch gave no item, and a document stage that
\* computed no record, execute no delete and no insert: the stage never
\* reaches a statement, and its table, like every other, is as it was
\* before the stage, durably and as the connection sees it.
C34_NothingToStoreNoChange ==
    (todo # <<>> /\ step # "begin") =>
        /\ (Stage \in Catalogs /\ all_items = <<>>) =>
              /\ step \notin {"insert", "commit"}
              /\ work = hist.before
              /\ db = hist.before
        /\ (Stage \in DocStages /\ records = <<>>) =>
              /\ step \notin StoreSteps
              /\ work = hist.before
              /\ db = hist.before

\* the purchases stage returns having computed no record, its only
\* document failing to load, with rows of earlier runs in its table; and the
\* catalog stage of the types returned having fetched no item
C34_Witness ==
    /\ Running(step = "return")
    /\ Stage = "purchases"
    /\ records = <<>>
    /\ remote.purchases.n = 1
    /\ remote.purchases.faults = {0}
    /\ remote.types = <<>>
    /\ WindowRows(db.purchase_prices) # NoRowsBag
    /\ db.nomenclature_types # NoRowsBag

\* C35: the flattening of a correction never divides by zero: a line item
\* with a nomenclature reference that is kept and quantity 0, or no
\* quantity, raises nothing and gives one record, of unit price 0.
C35_CorrectionZeroQuantity ==
    (/\ flat.pc = "out"
     /\ flat.kind = "correction"
     /\ ~Falsy(Get(flat.item.nom))
     /\ Get(flat.item.nom) # EMPTY_UUID
     /\ \/ flat.item.qty.k = "absent"
        \/ flat.item.qty.k = "num" /\ flat.item.qty.v = 0)
        => /\ ~flat.out.raised
           /\ Len(flat.out.rows) = 1
           /\ flat.out.rows[1].price = 0
           /\ flat.out.rows[1].quantity = 0

\* the same of the line items whose sums are numbers or missing
CorrectionZeroQuantityOfPlainItems == PlainItem => C35_CorrectionZeroQuantity
=============================================================================
